---- MODULE Spec2Model ----
(***************************************************************************)
(* Model of the error-recovery core of the parser-combinator library:      *)
(* the State value (state.go), the witness protocol, the recoverers and    *)
(* deleters (error.go, package gomme) and the sequence combinator MapN     *)
(* (error.go, package pcb).                                                *)
(*                                                                         *)
(* A State is a record (Go passes it by value); the caches are maps that   *)
(* all State values of one parse share, so they are variables of their     *)
(* own.  The input is a sequence of byte tokens: "a" "b" "1" are one-byte  *)
(* word runes, "L" followed by "c" is one two-byte word rune, " " and      *)
(* "\n" are spaces, "(" ")" "}" brackets, "," "+" punctuation.             *)
(*                                                                         *)
(* TLC evaluates a LET definition and an operator argument anew at each    *)
(* use.  Where the code assigns a value once and reads it often, the model *)
(* binds it with CHOOSE res \in {body : x \in {value}} : TRUE, which      *)
(* evaluates value once and is equal to LET x == value IN body.            *)
(***************************************************************************)
EXTENDS Integers, Sequences, FiniteSets, TLC

VARIABLES
    \* DefaultRecovererFunc's closure, one step per part of its loop
    rParse,     \* the parser the recoverer was built for
    rState,     \* `state`, the argument
    rCur,       \* `curState`
    rpc,        \* "test" (loop condition), "parse", "delete", "done"
    rWaste,     \* the value returned (-2 while running)
    \* CombiningRecoverer.Recover
    cState,     \* the State of the parse (its cursor is set by each call)
    cKids,      \* crc.recoverers
    cCache,     \* recovererWasteIdxCache, shared by every State of the parse
    cLast,      \* the last call: position, waste returned, cache hit or miss
    cComputed,  \* per position the waste the last cache miss there computed
    \* HandleWitness, one step per pass of its loop
    wEntry,     \* the State the witness parser was first entered with
    wParsers,   \* `parsers`
    wState,     \* `state`
    wOut,       \* `output`
    wpc,        \* "call", "loop", "ret" (returned), "end" (the parse went on),
                \* "second" (a later parser failed and its parent claimed it)
    wCalls,     \* invocations of the culprit since the entry in mode handle
    wTry,       \* the last pass of the loop: whether the culprit matched, and
                \* the state and output it returned
    wSecond,    \* the branch parser that saw the next failure after the parse
                \* went on: its ID, start position and the index of its failed
                \* child, the mode of the failed State, and whether the witness
                \* had handled its error
    \* the sequence combinator MapN: one step per function of mapData
    sGram,      \* md: n, the sub-parsers p1..pn, whether fn returns an error
    sEntry,     \* the State the parser was called with (mapParse's argument)
    sArgs,      \* the arguments of the function of mapData about to run
    spc,        \* that function, or "idle" (not yet called), "ret" (returned)
    sRet,       \* what the last call returned: state and output
    sCache,     \* parserCache, shared by every State of the parse
    sIdxCache,  \* recovererWasteIdxCache, shared in the same way
    sInvoked,   \* whether the current call has invoked a sub-parser
    sHit,       \* whether the current call found its result in the cache
    sRun,       \* what the last happy-mode call that missed the cache returned
    \* one method of State or one deleter applied to a State
    oSt,        \* the receiver
    oOp,        \* the function applied, "none" before
    oArg,       \* its arguments: count, ParserResult, the other State
    oNew,       \* the State returned
    oCnt,       \* the int returned (ByteCount)
    \* States built by sequences of method calls
    tA,         \* the State the methods are called on
    tB,         \* a State kept from earlier, passed as subState or errState
    tOld,       \* tA before the last call
    tOp,        \* the last method called
    tN,         \* the number of calls made
    \* an error passed up through the branch parsers above its leaf
    kErr,       \* the State the last parser of the chain returned
    kFirst,     \* the ID, start position and index of the first ancestor
    kDepth,     \* the number of ancestors that called IWitnessed
    \* the ID allocators and the goroutines that build parsers and recoverers
    iCounters,  \* the four atomic counters, by name
    iIssued,    \* per counter the IDs handed out, in the order of the Adds
    ipc,        \* per goroutine "idle" or the constructor it is in
    \* the caches of one parse and two States that share them
    qHeap,      \* the maps: handle -> id -> list of entries
    qRefs,      \* per State the handles of the maps its fields refer to
    qSt,        \* the States
    qLast,      \* the last call: its name, the State it was made on, and
                \* whether each of the caches it clears held an entry
    qN,         \* the number of calls made
    \* one list of a cache filled by a parse that moves on and comes back
    bKind,      \* the cache ("recovererWaste" or "output") and, for the
                \* output cache, maxRecursion
    bSt,        \* the State of the parse
    bCache,     \* the map
    bCount,     \* how often the parse came back to an earlier position, and
                \* how many outputs were purged
    bLast,      \* the last call: its name, whether the position was new to
                \* the list and whether the list was full
    \* two States of one parse that cache and look up through shared maps
    hKind,      \* the cache the parse uses: "recovererWaste" or "parser"
    hHeap,      \* the maps: handle -> id -> list of entries
    hRefs,      \* per State the handles of the maps its fields refer to
    hSt,        \* the States: the one the parse goes on with, and one it
                \* kept at some position
    hLive,      \* the (id, position) pairs a caching recoverer was called
                \* at since the last clear and whose entry was not evicted
    hCount,     \* the number of calls beside the walk of the parse
    hLast       \* the last call: its name, State, ID, position and outcome

recVars == <<rParse, rState, rCur, rpc, rWaste>>
combVars == <<cState, cKids, cCache, cLast, cComputed>>
witVars == <<wEntry, wParsers, wState, wOut, wpc, wCalls, wTry, wSecond>>
seqVars == <<sGram, sEntry, sArgs, spc, sRet, sCache, sIdxCache, sInvoked, sHit, sRun>>
opsVars == <<oSt, oOp, oArg, oNew, oCnt>>
modeVars == <<tA, tB, tOld, tOp, tN>>
chainVars == <<kErr, kFirst, kDepth>>
idVars == <<iCounters, iIssued, ipc>>
clearVars == <<qHeap, qRefs, qSt, qLast, qN>>
boundVars == <<bKind, bSt, bCache, bCount, bLast>>
shareVars == <<hKind, hHeap, hRefs, hSt, hLive, hCount, hLast>>
lateVars == <<shareVars>>
extraVars == <<idVars, clearVars, boundVars, lateVars>>
pureVars == <<opsVars, modeVars, chainVars, extraVars>>
coreVars == <<recVars, combVars, witVars, seqVars>>
vars == <<recVars, combVars, witVars, seqVars, pureVars>>

\* ------------------------------------------------------------------------
\* Bounds of the model
\* ------------------------------------------------------------------------
MaxLen == 3
MaxMaxDel == 2
CombLen == 2
MaxKids == 2

\* ------------------------------------------------------------------------
\* Program constants
\* ------------------------------------------------------------------------
MinCacheSize == 8
MaxParsers == 5

Min(a, b) == IF a < b THEN a ELSE b
Max(a, b) == IF a > b THEN a ELSE b

\* All sequences over S of length 0..k.
SeqsUpTo(S, k) == UNION {[1..m -> S] : m \in 0..k}

\* ------------------------------------------------------------------------
\* State (state.go) and pcbError / errHand (error.go)
\* ------------------------------------------------------------------------
NoErr == [text |-> "", pos |-> -1]

\* The zero errHand: no error, no witness.
NoErrHand ==
    [err |-> NoErr, witnessID |-> 0, witnessPos |-> 0, culpritIdx |-> 0,
     curDel |-> 0, ignoreErrParser |-> FALSE]

\* The State a parse starts with: mode happy, cursor at 0, nothing handled.
NewState(text, binary, maxDel) ==
    [mode |-> "happy", text |-> text, binary |-> binary, pos |-> 0,
     prevNl |-> -1, line |-> 1, saveSpot |-> -1, maxDel |-> maxDel,
     errHand |-> NoErrHand, oldErrors |-> <<>>]

\* Go's zero value of State: the value of a declared, never assigned State.
ZeroState ==
    [mode |-> "happy", text |-> <<>>, binary |-> FALSE, pos |-> 0,
     prevNl |-> 0, line |-> 0, saveSpot |-> 0, maxDel |-> 0,
     errHand |-> NoErrHand, oldErrors |-> <<>>]

InputN(st) == Len(st.text)

BytesRemaining(st) == InputN(st) - st.pos

CurrentString(st) == SubSeq(st.text, st.pos + 1, InputN(st))

Failed(st) == st.errHand.err # NoErr

\* A count taken from the start of the input instead of from st.
ByteCountFromStart(st, remaining) == Min(remaining.pos, InputN(st))

ByteCount(st, remaining) ==
    IF remaining.pos < st.pos THEN 0
    ELSE IF remaining.pos > InputN(st) THEN InputN(st) - st.pos
    ELSE remaining.pos - st.pos

\* strings.LastIndexByte: 0-based index of the last b in s, or -1.
LastIndexByte(s, b) ==
    LET hits == {i \in 1..Len(s) : s[i] = b}
    IN IF hits = {} THEN -1 ELSE (CHOOSE i \in hits : \A j \in hits : j <= i) - 1

\* strings.Count for a one-byte pattern.
CountByte(s, b) == Cardinality({i \in 1..Len(s) : s[i] = b})

\* A MoveBy that takes a negative count as it is.
MoveByNoClamp(st, countBytes) ==
    [st EXCEPT !.pos = Min(InputN(st), st.pos + countBytes)]

MoveBy(st, countBytes) ==
    LET c == IF countBytes < 0 THEN 0 ELSE countBytes
        pos == st.pos
        n == Min(InputN(st), pos + c)
        moveText == SubSeq(st.text, pos + 1, n)
        lastNlPos == LastIndexByte(moveText, "\n")
    IN IF (~st.binary) /\ lastNlPos >= 0
       THEN [st EXCEPT !.pos = n,
                       !.prevNl = @ + lastNlPos + 1,
                       !.line = @ + CountByte(moveText, "\n")]
       ELSE [st EXCEPT !.pos = n]

\* Width in bytes of the rune that starts at s[i] (utf8 decoding as Go's
\* range over a string does it: an invalid byte is a rune of width 1).
RuneWidth(s, i) ==
    IF s[i] = "L" /\ i + 1 <= Len(s) /\ s[i + 1] = "c" THEN 2 ELSE 1

\* The 0-based byte offsets at which the runes of s start, in order.
RECURSIVE RuneStartsFrom(_, _)
RuneStartsFrom(s, i) ==
    IF i > Len(s) THEN <<>>
    ELSE <<i - 1>> \o RuneStartsFrom(s, i + RuneWidth(s, i))

RuneStarts(s) == RuneStartsFrom(s, 1)

RECURSIVE SumFirst(_, _)
SumFirst(s, m) == IF m = 0 THEN 0 ELSE s[m] + SumFirst(s, m - 1)

\* The text branch adds up the loop variable i (the byte offset of each rune)
\* and moves by that sum once `count` runes were seen or the string ended.
TextDeleteBytes(st, count) ==
    LET starts == RuneStarts(CurrentString(st))
    IN SumFirst(starts, Min(count, Len(starts)))

Delete(st, count) ==
    IF count <= 0 THEN st
    ELSE IF st.binary THEN MoveBy(st, count)
    ELSE MoveBy(st, TextDeleteBytes(st, count))

NewParserError(st, message) == [text |-> message, pos |-> st.pos]

NewSemanticError(st, message) ==
    [st EXCEPT !.oldErrors = Append(@, NewParserError(st, message))]

\* An ErrorAgain that takes the error in whatever mode the State is.
ErrorAgainAnyMode(st, newErr) ==
    [st EXCEPT !.errHand.err = newErr,
               !.mode = IF st.errHand.witnessID = 0 THEN "error" ELSE "rewind"]

\* An ErrorAgain that goes to mode rewind only when the witness was set at
\* the position the State is at.
ErrorAgainWitnessHere(st, newErr) ==
    IF st.mode = "happy"
    THEN [st EXCEPT !.errHand.err = newErr,
                    !.mode = IF st.errHand.witnessID # 0
                                /\ st.errHand.witnessPos = st.pos
                             THEN "rewind" ELSE "error"]
    ELSE NewSemanticError(st, "programming error: State.NewError/ErrorAgain called")

ErrorAgain(st, newErr) ==
    IF st.mode = "happy"
    THEN [st EXCEPT !.errHand.err = newErr,
                    !.mode = IF st.errHand.witnessID = 0 THEN "error" ELSE "rewind"]
    ELSE NewSemanticError(st, "programming error: State.NewError/ErrorAgain called")

NewError(st, message) == ErrorAgain(st, NewParserError(st, "expected " \o message))

Preserve(st, subState) ==
    LET s1 == [st EXCEPT !.saveSpot = Max(st.saveSpot, subState.saveSpot),
                         !.mode = subState.mode]
    IN IF subState.errHand.err # NoErr \/ subState.errHand.witnessID > 0
       THEN [s1 EXCEPT !.errHand = subState.errHand]
       ELSE s1

Fail(st, subState) ==
    IF st.mode = "happy"
    THEN IF subState.errHand.err # NoErr
         THEN [st EXCEPT !.mode = "error", !.errHand.err = subState.errHand.err]
         ELSE [st EXCEPT !.mode = "error"]
    ELSE [st EXCEPT !.mode = subState.mode, !.errHand = subState.errHand]

Succeed(st, subState) ==
    LET s1 == [st EXCEPT !.saveSpot = Max(st.saveSpot, subState.saveSpot)]
    IN IF st.mode # "happy" \/ subState.mode # "error"
       THEN [s1 EXCEPT !.mode = subState.mode]
       ELSE s1

\* A ParserResult as SucceedAgain reads it: the mark and the bytes consumed.
SucceedAgain(st, result) ==
    LET s1 == IF result.SaveSpot >= 0
              THEN [st EXCEPT !.saveSpot = result.SaveSpot]
              ELSE st
    IN MoveBy(s1, result.Consumed)

\* State.Errors before the join: the sequence of errors reported, the empty
\* sequence standing for the nil error.
Errors(st) ==
    LET n == Len(st.oldErrors)
    IN IF st.errHand.err # NoErr
          /\ (n = 0 \/ st.errHand.err.pos # st.oldErrors[n].pos)
       THEN Append(st.oldErrors, st.errHand.err)
       ELSE st.oldErrors

\* ------------------------------------------------------------------------
\* Witness protocol and deleters (error.go, package gomme)
\* ------------------------------------------------------------------------
\* An IWitnessed that hands back the sub-parser's state instead of the
\* caller's.
IWitnessedErrState(state, witnessID, idx, errState) ==
    IF state.errHand.err # NoErr
    THEN NewSemanticError(state,
            "programming error: IWitnessed called while still handling an error")
    ELSE IF errState.errHand.witnessID = 0
         THEN [errState EXCEPT !.errHand.witnessID = witnessID,
                               !.errHand.witnessPos = state.pos,
                               !.errHand.culpritIdx = IF idx < 0 THEN 0 ELSE idx]
         ELSE errState

\* An IWitnessed that claims the error whether or not it has a witness.
IWitnessedReclaims(state, witnessID, idx, errState) ==
    IF state.errHand.err # NoErr
    THEN NewSemanticError(state,
            "programming error: IWitnessed called while still handling an error")
    ELSE [state EXCEPT !.errHand =
             [errState.errHand EXCEPT !.witnessID = witnessID,
                                      !.witnessPos = state.pos,
                                      !.culpritIdx = IF idx < 0 THEN 0 ELSE idx]]

IWitnessed(state, witnessID, idx, errState) ==
    IF state.errHand.err # NoErr
    THEN NewSemanticError(state,
            "programming error: IWitnessed called while still handling an error")
    ELSE IF errState.errHand.witnessID = 0
         THEN [state EXCEPT !.errHand =
                  [errState.errHand EXCEPT !.witnessID = witnessID,
                                           !.witnessPos = state.pos,
                                           !.culpritIdx = IF idx < 0 THEN 0 ELSE idx]]
         ELSE [state EXCEPT !.errHand = errState.errHand]

DefaultBinaryDeleter(state, count) == MoveBy(state, count)

\* The rune that starts at s[i]: "Lc" stands for the two-byte word rune.
RuneAt(s, i) == IF RuneWidth(s, i) = 2 THEN "Lc" ELSE s[i]

\* The rune class the text deleter assigns; "?" is utf8.RuneError.
RuneType(r) ==
    IF r \in {"a", "b", "1", "2", "_", "Lc"} THEN "a"
    ELSE IF r \in {" ", "\n"} THEN " "
    ELSE IF r \in {"(", "[", "{", "}", "]", ")"} THEN "("
    ELSE IF r \in {"+", "-", "*", "/", "%", "^", "=", ":", "<", ">", "~",
                   "|", ";", ".", ","} THEN "+"
    ELSE "?"

\* The closure handed to strings.IndexFunc, run rune by rune: the 0-based byte
\* offset of the first rune at which found = count, or -1.  `paren` is a local
\* of the closure, so it is the zero rune ("0") every time the closure runs.
RECURSIVE TextDeleterScan(_, _, _, _, _)
TextDeleterScan(s, i, found, oldTyp, count) ==
    IF i > Len(s) THEN -1
    ELSE LET r == RuneAt(s, i)
             typ == RuneType(r)
             paren == "0"
             f1 == IF typ # oldTyp /\ typ # " " /\ oldTyp # "0"
                   THEN found + 1 ELSE found
             f2 == IF typ # oldTyp /\ typ = "(" /\ oldTyp = "(" /\ r # paren
                   THEN f1 + 1 ELSE f1
             newTyp == IF typ # oldTyp THEN typ ELSE oldTyp
         IN IF f2 = count THEN i - 1
            ELSE TextDeleterScan(s, i + RuneWidth(s, i), f2, newTyp, count)

\* A text deleter for which the first rune of the rest of the input already
\* is a change of class.
DefaultTextDeleterCountsFirst(state, count) ==
    LET byteCount == TextDeleterScan(CurrentString(state), 1, 0, " ", count)
    IN IF byteCount < 0 THEN MoveBy(state, BytesRemaining(state))
       ELSE MoveBy(state, byteCount)

DefaultTextDeleter(state, count) ==
    LET byteCount == TextDeleterScan(CurrentString(state), 1, 0, "0", count)
    IN IF byteCount < 0 THEN MoveBy(state, BytesRemaining(state))
       ELSE MoveBy(state, byteCount)

\* state.deleter: the deleter the State was constructed with.
Deleter(state, count) ==
    IF state.binary THEN DefaultBinaryDeleter(state, count)
    ELSE DefaultTextDeleter(state, count)

\* ------------------------------------------------------------------------
\* Sub-parsers (the Parser interface the core consumes)
\*   kind "lit": matches the byte `lit` and consumes it
\*   kind "eps": matches everywhere and consumes nothing
\*   kind "at" : matches at the positions in okAt, consuming one byte if any
\*   save      : the parser is wrapped in a save spot
\* ------------------------------------------------------------------------
ZeroOut == <<>>

LitParser(b) == [kind |-> "lit", lit |-> b, okAt |-> {}, save |-> FALSE]
EpsParser == [kind |-> "eps", lit |-> "", okAt |-> {}, save |-> FALSE]
AtParser(S) == [kind |-> "at", lit |-> "", okAt |-> S, save |-> FALSE]
SaveSpotOf(p) == [p EXCEPT !.save = TRUE]

Expected(p) == IF p.kind = "lit" THEN p.lit ELSE p.kind

Matches(p, st) ==
    CASE p.kind = "lit" -> st.pos < InputN(st) /\ st.text[st.pos + 1] = p.lit
      [] p.kind = "eps" -> TRUE
      [] OTHER -> st.pos \in p.okAt

\* A leaf parser: on a match the state moved past it and the matched bytes,
\* on a mismatch state.NewError(expected) and the zero output.
LeafIt(p, st) ==
    IF Matches(p, st)
    THEN LET c == IF p.kind = "eps" THEN 0 ELSE 1
             ns == MoveBy(st, c)
         IN [st |-> ns, out |-> SubSeq(st.text, st.pos + 1, ns.pos)]
    ELSE [st |-> NewError(st, Expected(p)), out |-> ZeroOut]

\* The recoverer of a save-spot parser: the waste up to its next match.
SaveSpotRecoverer(p, st) ==
    LET hits == {w \in 0..(BytesRemaining(st) - 1) : Matches(p, MoveBy(st, w))}
    IN IF hits = {} THEN -1 ELSE CHOOSE w \in hits : \A v \in hits : w <= v

\* Parser.It.  A save-spot parser sets the mark to its end on success and, met
\* in mode error, turns the state to mode handle; met in mode escape it skips
\* to the position its recoverer recommends and resumes in mode happy there
\* (it stays in mode escape if there is none).
It(p, st) ==
    IF ~p.save THEN LeafIt(p, st)
    ELSE IF st.mode = "error" THEN [st |-> [st EXCEPT !.mode = "handle"], out |-> ZeroOut]
    ELSE IF st.mode = "escape"
    THEN IF SaveSpotRecoverer(p, st) < 0 THEN [st |-> st, out |-> ZeroOut]
         ELSE LET r == LeafIt(p, MoveBy([st EXCEPT !.mode = "happy"],
                                        SaveSpotRecoverer(p, st)))
              IN [r EXCEPT !.st.saveSpot = Max(@, r.st.pos)]
    ELSE LET r == LeafIt(p, st)
         IN IF st.mode = "happy" /\ Matches(p, st)
            THEN [r EXCEPT !.st.saveSpot = Max(@, r.st.pos)]
            ELSE r

\* What a pass of the loop that did not invoke the culprit got from it.
ZeroTry == [st |-> ZeroState, out |-> ZeroOut]

\* No pass of the loop has invoked the culprit.
NoTry == [called |-> FALSE, matched |-> FALSE, st |-> ZeroState, out |-> ZeroOut]

\* The switch at the head of the loop with a give-up threshold two too high.
HandleWitnessSwitchLate(state) ==
    LET eh == state.errHand
    IN CASE state.mode = "handle" ->
              [st |-> [state EXCEPT !.errHand.err = NoErr,
                                    !.errHand.curDel = 1,
                                    !.errHand.ignoreErrParser = FALSE],
               ret |-> FALSE]
         [] state.mode = "rewind" ->
              IF eh.curDel + 1 > state.maxDel + 2
              THEN IF ~eh.ignoreErrParser
                   THEN [st |-> [state EXCEPT !.errHand.curDel = 0,
                                              !.errHand.ignoreErrParser = TRUE],
                         ret |-> FALSE]
                   ELSE [st |-> [state EXCEPT !.errHand.curDel = eh.curDel + 1,
                                              !.mode = "escape"],
                         ret |-> TRUE]
              ELSE [st |-> [state EXCEPT !.errHand.curDel = eh.curDel + 1],
                    ret |-> FALSE]
         [] OTHER -> [st |-> state, ret |-> TRUE]

\* The switch on state.mode at the head of HandleWitness' loop: the state it
\* leaves and whether it returned from the function.
HandleWitnessSwitch(state) ==
    LET eh == state.errHand
    IN CASE state.mode = "handle" ->
              [st |-> [state EXCEPT !.errHand.err = NoErr,
                                    !.errHand.curDel = 1,
                                    !.errHand.ignoreErrParser = FALSE],
               ret |-> FALSE]
         [] state.mode = "rewind" ->
              IF eh.curDel + 1 > state.maxDel
              THEN IF ~eh.ignoreErrParser
                   THEN [st |-> [state EXCEPT !.errHand.curDel = 0,
                                              !.errHand.ignoreErrParser = TRUE],
                         ret |-> FALSE]
                   ELSE [st |-> [state EXCEPT !.errHand.curDel = eh.curDel + 1,
                                              !.mode = "escape"],
                         ret |-> TRUE]
              ELSE [st |-> [state EXCEPT !.errHand.curDel = eh.curDel + 1],
                    ret |-> FALSE]
         [] OTHER -> [st |-> state, ret |-> TRUE]

\* A pass of the loop that invokes the culprit whether or not
\* ignoreErrParser is set.
HandleWitnessIterTries(state, orgPos, parse) ==
    CHOOSE res \in
      {IF sw.ret THEN [st |-> sw.st, out |-> ZeroOut, ret |-> TRUE, called |-> FALSE,
                       matched |-> FALSE, try |-> ZeroTry]
       ELSE CHOOSE res3 \in
         {CHOOSE resr \in
            {IF ~Failed(r.st)
             THEN [st |-> r.st, out |-> r.out, ret |-> TRUE, called |-> TRUE,
                   matched |-> Matches(parse, s3), try |-> r]
             ELSE [st |-> [r.st EXCEPT !.mode = "rewind"], out |-> r.out,
                   ret |-> FALSE, called |-> TRUE,
                   matched |-> Matches(parse, s3), try |-> r]
             : r \in {It(parse, s3)}} : TRUE
          : s3 \in {Deleter([sw.st EXCEPT !.mode = "happy", !.pos = orgPos],
                            sw.st.errHand.curDel)}} : TRUE
       : sw \in {HandleWitnessSwitch(state)}} : TRUE

\* One pass through the body of HandleWitness' loop: ret tells whether the
\* function returned, called whether the culprit was invoked.  (s3 is the
\* state after the deleter ran, r what the culprit returned.)
HandleWitnessIter(state, orgPos, parse) ==
    CHOOSE res \in
      {IF sw.ret THEN [st |-> sw.st, out |-> ZeroOut, ret |-> TRUE, called |-> FALSE,
                       matched |-> FALSE, try |-> ZeroTry]
       ELSE CHOOSE res3 \in
         {IF s3.errHand.ignoreErrParser
          THEN [st |-> s3, out |-> ZeroOut, ret |-> TRUE, called |-> FALSE,
                matched |-> FALSE, try |-> ZeroTry]
          ELSE CHOOSE resr \in
            {IF ~Failed(r.st)
             THEN [st |-> r.st, out |-> r.out, ret |-> TRUE, called |-> TRUE,
                   matched |-> Matches(parse, s3), try |-> r]
             ELSE [st |-> [r.st EXCEPT !.mode = "rewind"], out |-> r.out,
                   ret |-> FALSE, called |-> TRUE,
                   matched |-> Matches(parse, s3), try |-> r]
             : r \in {It(parse, s3)}} : TRUE
          : s3 \in {Deleter([sw.st EXCEPT !.mode = "happy", !.pos = orgPos],
                            sw.st.errHand.curDel)}} : TRUE
       : sw \in {HandleWitnessSwitch(state)}} : TRUE

RECURSIVE HandleWitnessLoop(_, _, _)
HandleWitnessLoop(state, orgPos, parse) ==
    CHOOSE res \in
      {IF r.ret THEN [st |-> r.st, out |-> r.out]
       ELSE HandleWitnessLoop(r.st, orgPos, parse)
       : r \in {HandleWitnessIter(state, orgPos, parse)}} : TRUE

\* The culprit check HandleWitness makes before its loop.
WitnessCulprit(state, nParsers) ==
    IF state.errHand.culpritIdx >= nParsers
    THEN [NewSemanticError(state,
             "programming error: index of culprit sub-parser is too large")
          EXCEPT !.errHand.culpritIdx = nParsers - 1]
    ELSE state

IsWitness(state, id) ==
    state.errHand.witnessID = id /\ state.errHand.witnessPos = state.pos

HandleWitness(state, id, idx, parsers) ==
    IF ~IsWitness(state, id) THEN It(parsers[idx + 1], state)
    ELSE CHOOSE res \in
           {HandleWitnessLoop(s0, state.pos, parsers[s0.errHand.culpritIdx + 1])
            : s0 \in {WitnessCulprit(state, Len(parsers))}} : TRUE

\* ------------------------------------------------------------------------
\* Caches (state.go)
\* ------------------------------------------------------------------------
\* slices.IndexFunc for "same position": 1-based index of the first entry of
\* scache at position pos, 0 if there is none (Go: -1).
IndexOfPos(scache, pos) ==
    LET hits == {i \in 1..Len(scache) : scache[i].pos = pos}
    IN IF hits = {} THEN 0 ELSE CHOOSE i \in hits : \A j \in hits : i <= j

\* IndexOrMinFunc: the slot a full list gives up: the entry at the same
\* position if there is one, else the entry with the smallest position.
IndexOrMinFunc(scache, value) ==
    IF IndexOfPos(scache, value.pos) # 0 THEN IndexOfPos(scache, value.pos)
    ELSE CHOOSE i \in 1..Len(scache) :
            /\ \A j \in 1..Len(scache) : scache[i].pos <= scache[j].pos
            /\ \A j \in 1..(i - 1) : scache[j].pos # scache[i].pos

\* A cacheValue that takes a list of cacheSize entries as not yet full.
cacheValueFullLate(cache, id, value, maxDel) ==
    LET cacheSize == Max(maxDel + 1, MinCacheSize)
    IN IF id \notin DOMAIN cache THEN (id :> <<value>>) @@ cache
       ELSE LET scache == cache[id]
                i == IndexOfPos(scache, value.pos)
            IN IF Len(scache) <= cacheSize
               THEN IF i = 0 THEN [cache EXCEPT ![id] = Append(scache, value)]
                    ELSE [cache EXCEPT ![id][i] = value]
               ELSE [cache EXCEPT ![id][IndexOrMinFunc(scache, value)] = value]

\* A cacheValue that appends to a list below its size without looking for an
\* entry at the position of the value.
cacheValueAppends(cache, id, value, maxDel) ==
    LET cacheSize == Max(maxDel + 1, MinCacheSize)
    IN IF id \notin DOMAIN cache THEN (id :> <<value>>) @@ cache
       ELSE LET scache == cache[id]
            IN IF Len(scache) < cacheSize
               THEN [cache EXCEPT ![id] = Append(scache, value)]
               ELSE [cache EXCEPT ![id][IndexOrMinFunc(scache, value)] = value]

\* cacheValue with f = cmp.Compare on the positions, as all callers pass it.
cacheValue(cache, id, value, maxDel) ==
    LET cacheSize == Max(maxDel + 1, MinCacheSize)
    IN IF id \notin DOMAIN cache THEN (id :> <<value>>) @@ cache
       ELSE LET scache == cache[id]
                i == IndexOfPos(scache, value.pos)
            IN IF Len(scache) < cacheSize
               THEN IF i = 0 THEN [cache EXCEPT ![id] = Append(scache, value)]
                    ELSE [cache EXCEPT ![id][i] = value]
               ELSE [cache EXCEPT ![id][IndexOrMinFunc(scache, value)] = value]

\* cachedValue for "entry at position pos": [ok, value].
cachedValue(cache, id, pos) ==
    IF id \notin DOMAIN cache THEN [ok |-> FALSE]
    ELSE LET i == IndexOfPos(cache[id], pos)
         IN IF i = 0 THEN [ok |-> FALSE] ELSE [ok |-> TRUE, value |-> cache[id][i]]

cacheRecovererWasteIdx(cache, st, crID, waste, idx) ==
    cacheValue(cache, crID, [pos |-> st.pos, waste |-> waste, idx |-> idx], st.maxDel)

cachedRecovererWasteIdx(cache, st, crID) ==
    LET r == cachedValue(cache, crID, st.pos)
    IN IF ~r.ok THEN [waste |-> -1, idx |-> -1, ok |-> FALSE]
       ELSE [waste |-> r.value.waste, idx |-> r.value.idx, ok |-> TRUE]

cacheRecovererWaste(cache, st, id, waste) ==
    cacheValue(cache, id, [pos |-> st.pos, waste |-> waste], st.maxDel)

\* A lookup that takes a cached waste of -1 for "not cached".
cachedRecovererWasteNoFail(cache, st, id) ==
    LET r == cachedValue(cache, id, st.pos)
    IN IF ~r.ok \/ r.value.waste = -1 THEN [waste |-> -1, ok |-> FALSE]
       ELSE [waste |-> r.value.waste, ok |-> TRUE]

cachedRecovererWaste(cache, st, id) ==
    LET r == cachedValue(cache, id, st.pos)
    IN IF ~r.ok THEN [waste |-> -1, ok |-> FALSE]
       ELSE [waste |-> r.value.waste, ok |-> TRUE]

\* CacheOutput; maxRecursion is the field of st of that name.
CacheOutput(cache, st, id, output, maxRecursion) ==
    cacheValue(cache, id, [pos |-> st.pos, Output |-> output], maxRecursion)

\* CachedOutput: [ok, value].
CachedOutput(cache, st, id) == cachedValue(cache, id, st.pos)

\* PurgeOutput: the entry at the position of st becomes ParserOutput{pos: -1}.
PurgeOutput(cache, st, id) ==
    IF id \notin DOMAIN cache \/ IndexOfPos(cache[id], st.pos) = 0 THEN cache
    ELSE [cache EXCEPT ![id][IndexOfPos(cache[id], st.pos)] =
                           [pos |-> 0 - 1, Output |-> ZeroOut]]

\* The maps live on the heap (a sequence of maps, a handle is an index) and a
\* State holds the handles of its four maps: a copy of a State refers to the
\* same maps.
NewCaches ==
    [heap |-> <<<<>>, <<>>, <<>>, <<>>>>,
     refs |-> [recovererWasteCache |-> 1, recovererWasteIdxCache |-> 2,
               parserCache |-> 3, outputCache |-> 4]]

\* A ClearAllCaches that gives its State new empty maps and leaves the old
\* ones as they are.
ClearAllCachesRebinds(heap, refs) ==
    [heap |-> heap \o <<<<>>, <<>>, <<>>>>,
     refs |-> [refs EXCEPT !.recovererWasteCache = Len(heap) + 1,
                           !.recovererWasteIdxCache = Len(heap) + 2,
                           !.parserCache = Len(heap) + 3]]

\* ClearAllCaches: clear() empties the three maps in place; the State it
\* returns is the receiver.
ClearAllCaches(heap, refs) ==
    [heap |-> [heap EXCEPT ![refs.recovererWasteCache] = <<>>,
                           ![refs.recovererWasteIdxCache] = <<>>,
                           ![refs.parserCache] = <<>>],
     refs |-> refs]

\* ------------------------------------------------------------------------
\* Recoverers (error.go, package gomme)
\* ------------------------------------------------------------------------
\* A child recoverer of the combining recoverer, by the Recoverer contract:
\* the bytes to skip until the literal `lit` is next, -1 if it never is.  The
\* empty literal (the parser that matches everywhere) is next wherever input
\* is left.
Recoverer(lit, st) ==
    LET hits == {w \in 0..(BytesRemaining(st) - 1) :
                    lit = "" \/ st.text[st.pos + w + 1] = lit}
    IN IF hits = {} THEN -1 ELSE CHOOSE w \in hits : \A v \in hits : w <= v

\* The func CachingRecoverer returns, for the wrapped recoverer of the
\* literal lit: the waste returned, the cache after the call and whether the
\* wrapped recoverer was invoked.
CachingRecovererFunc(lit, cache, st, id) ==
    LET c == cachedRecovererWaste(cache, st, id)
    IN IF c.ok THEN [waste |-> c.waste, cache |-> cache, invoked |-> FALSE]
       ELSE [waste |-> Recoverer(lit, st),
             cache |-> cacheRecovererWaste(cache, st, id, Recoverer(lit, st)),
             invoked |-> TRUE]

\* A pass that keeps the last usable waste without comparing it to the best.
RecoverCaseNoCompare(acc, i, w) ==
    IF w = -1 THEN acc ELSE [waste |-> w, idx |-> i]

\* One pass of the loop over crc.recoverers; `break` leaves the switch only.
RecoverCase(acc, i, w) ==
    IF w = -1 THEN acc
    ELSE IF w = 0 THEN [waste |-> 0, idx |-> i]
    ELSE IF acc.waste < 0 \/ w < acc.waste THEN [waste |-> w, idx |-> i]
    ELSE acc

\* The loop of Recover over recoverers i..len-1 (i is 0-based).
RECURSIVE RecoverLoop(_, _, _, _)
RecoverLoop(kids, st, i, acc) ==
    IF i >= Len(kids) THEN acc
    ELSE LET a == RecoverCase([waste |-> acc.waste, idx |-> acc.idx], i,
                              Recoverer(kids[i + 1], st))
         IN RecoverLoop(kids, st, i + 1,
                        [waste |-> a.waste, idx |-> a.idx, calls |-> acc.calls + 1])

\* CombiningRecoverer.Recover: [waste, cache, hit, calls], calls being the
\* number of times it invoked a child recoverer.
Recover(kids, id, cache, st) ==
    LET c == cachedRecovererWasteIdx(cache, st, id)
    IN IF c.ok THEN [waste |-> c.waste, cache |-> cache, hit |-> TRUE, calls |-> 0]
       ELSE LET r == RecoverLoop(kids, st, 0, [waste |-> -1, idx |-> -1, calls |-> 0])
            IN [waste |-> r.waste,
                cache |-> cacheRecovererWasteIdx(cache, st, id, r.waste, r.idx),
                hit |-> FALSE, calls |-> r.calls]

CachedIndex(id, cache, st) ==
    LET c == cachedRecovererWasteIdx(cache, st, id)
    IN IF ~c.ok THEN [idx |-> -1, ok |-> FALSE] ELSE [idx |-> c.idx, ok |-> TRUE]

\* ------------------------------------------------------------------------
\* The parser-result cache (state.go) and the sequence combinator MapN
\* (error.go, package pcb).  The functions of mapData end in calls of each
\* other; each is an operator that yields either what the function returns
\* (kind "ret") or the function it ends in with the arguments it passes.
\* ------------------------------------------------------------------------
SeqID == 1

\* The id of the first CombiningRecoverer built.
CombID == 1

SaveSpotMoved(st, other) == st.saveSpot # other.saveSpot

\* The entry written by a CacheParserResult that keeps the caller's error.
CacheParserResultOwnError(cache, st, id, idx, saveSpotIdx, saveSpotStart, newState, output) ==
    cacheValue(cache, id,
        [pos |-> st.pos, Idx |-> idx, Failed |-> Failed(newState),
         SaveSpotIdx |-> saveSpotIdx, HasSaveSpot |-> saveSpotStart >= 0,
         SaveSpotStart |-> saveSpotStart,
         SaveSpot |-> IF saveSpotStart >= 0 THEN newState.saveSpot ELSE -1,
         Error |-> st.errHand.err,
         ErrorStart |-> IF newState.errHand.err # NoErr
                        THEN ByteCount(st, newState) ELSE 0,
         Consumed |-> 0, Output |-> output],
        st.maxDel)

\* CacheParserResult: the cache after the call.  The literal it builds names
\* every field of ParserResult but Consumed, which so keeps its zero value.
CacheParserResult(cache, st, id, idx, saveSpotIdx, saveSpotStart, newState, output) ==
    cacheValue(cache, id,
        [pos |-> st.pos, Idx |-> idx, Failed |-> Failed(newState),
         SaveSpotIdx |-> saveSpotIdx, HasSaveSpot |-> saveSpotStart >= 0,
         SaveSpotStart |-> saveSpotStart,
         SaveSpot |-> IF saveSpotStart >= 0 THEN newState.saveSpot ELSE -1,
         Error |-> newState.errHand.err,
         ErrorStart |-> IF newState.errHand.err # NoErr
                        THEN ByteCount(st, newState) ELSE 0,
         Consumed |-> 0, Output |-> output],
        st.maxDel)

CachedParserResult(cache, st, id) == cachedValue(cache, id, st.pos)

\* out1..out5 as mapParse passes them: the zero outputs.
ZeroOuts == [k \in 1..MaxParsers |-> ZeroOut]

ZeroArgs ==
    [state |-> ZeroState, remaining |-> ZeroState, startIdx |-> 0,
     noWayBackStart |-> -1, noWayBackIdx |-> -1, outs |-> ZeroOuts]

RECURSIVE Concat(_, _)
Concat(outs, n) == IF n = 0 THEN <<>> ELSE Concat(outs, n - 1) \o outs[n]

\* fn1..fn5: the mapped value of the first n outputs, or a domain error.
Mapper(gram, outs) ==
    [err |-> gram.fnErr,
     mo |-> IF gram.fnErr THEN ZeroOut ELSE Concat(outs, gram.n)]

\* What a function of mapData yields when it returns.
Returns(st, out, cache, invoked, hit) ==
    [kind |-> "ret", st |-> st, out |-> out, cache |-> cache,
     invoked |-> invoked, hit |-> hit]

\* What a function of mapData yields when it ends in a call of fn(args).
Calls(fn, args, cache, invoked) ==
    [kind |-> fn, args |-> args, cache |-> cache, invoked |-> invoked,
     hit |-> FALSE]

mapnMap(gram, state, outs, cache, invoked) ==
    IF Mapper(gram, outs).err
    THEN Returns(NewSemanticError(state, "fn error"), ZeroOut, cache, invoked, FALSE)
    ELSE Returns(state, Mapper(gram, outs).mo, cache, invoked, FALSE)

\* The end of sequenceHappy: the mapper ran on the outputs; last is newStateN.
HappyMap(gram, cache, state, last, acc) ==
    IF Mapper(gram, acc.outs).err
    THEN Returns(NewSemanticError(last, "fn error"), ZeroOut,
                 CacheParserResult(cache, state, SeqID, gram.n - 1, acc.noWayBackIdx,
                                   acc.noWayBackStart, last, ZeroOut),
                 acc.invoked, FALSE)
    ELSE Returns(last, Mapper(gram, acc.outs).mo,
                 CacheParserResult(cache, state, SeqID, gram.n - 1, acc.noWayBackIdx,
                                   acc.noWayBackStart, last, Mapper(gram, acc.outs).mo),
                 acc.invoked, FALSE)

\* sequenceHappy from its k-th sub-parser on (k is 1-based): prev is
\* newState(k-1), `state` for k = 1; acc holds noWayBackIdx, noWayBackStart,
\* out1..out5, `outputs`, and whether a sub-parser was invoked.  A sub-parser
\* below startIdx is not run and its newState stays the zero State; the fifth
\* is run whatever startIdx is.
RECURSIVE HappyFrom(_, _, _, _, _, _, _)
HappyFrom(gram, cache, state, startIdx, k, prev, acc) ==
    IF k > gram.n THEN HappyMap(gram, cache, state, prev, acc)
    ELSE IF ~(startIdx <= k - 1 \/ k = MaxParsers)
    THEN HappyFrom(gram, cache, state, startIdx, k + 1, ZeroState,
                   [acc EXCEPT !.outputs = Append(@, acc.outs[k])])
    ELSE CHOOSE res \in
      {IF Failed(r.st)
       THEN CHOOSE resw \in
         {IF k = 1 \/ acc.noWayBackStart < 0
          THEN Returns(w.st, ZeroOut, w.cache, TRUE, FALSE)
          ELSE Calls("mapnError",
                     [state |-> w.st, remaining |-> w.st, startIdx |-> k - 1,
                      noWayBackStart |-> acc.noWayBackStart,
                      noWayBackIdx |-> acc.noWayBackIdx,
                      outs |-> [acc.outs EXCEPT ![k] = r.out]],
                     w.cache, TRUE)
          : w \in {[st |-> IWitnessed(state, SeqID, 0, r.st),
                    cache |-> CacheParserResult(cache, state, SeqID, k - 1,
                                                acc.noWayBackIdx, acc.noWayBackStart,
                                                r.st, acc.outputs)]}} : TRUE
       ELSE HappyFrom(gram, cache, state, startIdx, k + 1, r.st,
                      [noWayBackIdx |-> IF SaveSpotMoved(prev, r.st)
                                        THEN k - 1 ELSE acc.noWayBackIdx,
                       noWayBackStart |-> IF SaveSpotMoved(prev, r.st)
                                          THEN ByteCount(state, prev)
                                          ELSE acc.noWayBackStart,
                       outs |-> [acc.outs EXCEPT ![k] = r.out],
                       outputs |-> Append(acc.outputs, r.out),
                       invoked |-> TRUE])
       : r \in {It(gram.ps[k], IF k = 1 THEN state ELSE prev)}} : TRUE

sequenceHappy(gram, cache, a) ==
    CHOOSE res \in
      {IF a.startIdx <= 0 /\ c.ok
       THEN IF c.value.Failed
            THEN Returns(ErrorAgain(a.state, c.value.Error), ZeroOut, cache, FALSE, TRUE)
            ELSE Returns(MoveBy(a.state, c.value.Consumed), c.value.Output,
                         cache, FALSE, TRUE)
       ELSE HappyFrom(gram, cache, a.state, a.startIdx, 1, a.state,
                      [noWayBackIdx |-> a.noWayBackIdx,
                       noWayBackStart |-> a.noWayBackStart,
                       outs |-> a.outs, outputs |-> <<>>, invoked |-> FALSE])
       : c \in {CachedParserResult(cache, a.state, SeqID)}} : TRUE

\* The sub-parser a switch over an index picks: p1..p4 by their case, p5 by
\* the default case.
SubParser(gram, idx) ==
    IF idx \in 0..3 THEN gram.ps[idx + 1] ELSE gram.ps[MaxParsers]

mapnError(gram, cache, a, invoked) ==
    CHOOSE res \in
      {IF ~c.ok
       THEN Returns(NewSemanticError(a.state,
                        "grammar error: cache was empty in MapN(error) parser"),
                    ZeroOut, cache, invoked, FALSE)
       ELSE IF ~c.value.HasSaveSpot
       THEN Returns(a.state, ZeroOut, cache, invoked, FALSE)
       ELSE CHOOSE resn \in
         {IF newState.mode # "handle"
          THEN Returns(NewSemanticError(a.state,
                           "programming error: sub-parser didn't switch to handle"),
                       ZeroOut, cache, TRUE, FALSE)
          ELSE IF c.value.Failed
          THEN Calls("mapnHandle",
                     [a EXCEPT !.state = newState, !.startIdx = c.value.Idx],
                     cache, TRUE)
          ELSE Returns(Preserve(a.state, newState), ZeroOut, cache, TRUE, FALSE)
          : newState \in
              {It(SubParser(gram, c.value.SaveSpotIdx),
                  IF c.value.SaveSpotIdx = 0 THEN a.state
                  ELSE MoveBy(a.state, c.value.SaveSpotStart)).st}} : TRUE
       : c \in {CachedParserResult(cache, a.state, SeqID)}} : TRUE

\* mapnHandle and mapnRewind have the same body; `what` is "handle" or
\* "rewind" in the message.
mapnWitness(gram, cache, a, invoked, what) ==
    CHOOSE res \in
      {IF ~c.ok
       THEN Returns(NewSemanticError(a.state,
                        "grammar error: cache was empty in MapN(" \o what \o ") parser"),
                    ZeroOut, cache, invoked, FALSE)
       ELSE IF ~c.value.Failed
       THEN Returns(a.state, ZeroOut, cache, invoked, FALSE)
       ELSE CHOOSE resh \in
         {Calls("mapnAny",
                [state |-> a.state, remaining |-> h.st,
                 startIdx |-> c.value.Idx + 1,
                 noWayBackStart |-> c.value.SaveSpotStart,
                 noWayBackIdx |-> c.value.SaveSpotIdx,
                 outs |-> [a.outs EXCEPT
                             ![IF c.value.Idx \in 0..3 THEN c.value.Idx + 1
                               ELSE MaxParsers] = h.out]],
                cache, TRUE)
          : h \in {HandleWitness(IF c.value.Idx = 0 THEN a.state
                                 ELSE MoveBy(a.state, c.value.ErrorStart),
                                 SeqID, 0,
                                 <<SubParser(gram, c.value.Idx)>>)}} : TRUE
       : c \in {CachedParserResult(cache, a.state, SeqID)}} : TRUE

mapnHandle(gram, cache, a, invoked) == mapnWitness(gram, cache, a, invoked, "handle")

mapnRewind(gram, cache, a, invoked) == mapnWitness(gram, cache, a, invoked, "rewind")

\* md.subRecoverers: the recoverers of the sub-parsers that contain a save
\* spot, in the order of the sub-parsers; each is named by the 0-based index
\* of its sub-parser.
SubRecoverers(gram) ==
    SelectSeq([k \in 1..gram.n |-> k - 1], LAMBDA i : gram.ps[i + 1].save)

\* md.noWayBackRecoverer: the combining recoverer over md.subRecoverers (the
\* first one built, id CombID); its children by the literal they look for.
NoWayBackRecoverers(gram) ==
    [j \in 1..Len(SubRecoverers(gram)) |-> gram.ps[SubRecoverers(gram)[j] + 1].lit]

\* crc.LastIndex() after crc.Recover(state): the index Recover found best,
\* which is the one it cached for the position of state.
LastIndex(kids, id, cache, st) == CachedIndex(id, Recover(kids, id, cache, st).cache, st).idx

\* The index mapnEscape computes for startIdx <= 0, and the cache it leaves.
EscapeIndex(gram, icache, a) ==
    CHOOSE res \in
      {IF c.ok THEN [idx |-> c.idx, icache |-> icache]
       ELSE [idx |-> LastIndex(NoWayBackRecoverers(gram), CombID, icache, a.state),
             icache |-> Recover(NoWayBackRecoverers(gram), CombID, icache, a.state).cache]
       : c \in {CachedIndex(CombID, icache, a.state)}} : TRUE

\* mapnEscape yields what the other functions yield and the cache of the
\* combining recoverer.  For startIdx > 0 it sets the first startIdx elements
\* of a copy of md.subRecoverers to nil and has a new combining recoverer call
\* them all: the index is out of range or the nil function is called, and
\* the program panics either way.
mapnEscape(gram, cache, icache, a, invoked) ==
    IF a.startIdx > 0
    THEN Calls("panic", a, cache, invoked) @@ [icache |-> icache]
    ELSE CHOOSE res \in
      {IF e.idx < 0
       THEN Returns(Preserve(a.state,
                        NewSemanticError(a.remaining,
                            "programming error: no recoverer found in MapN(escape) parser")),
                    ZeroOut, cache, invoked, FALSE) @@ [icache |-> e.icache]
       ELSE CHOOSE resn \in
         {IF r.st.mode = "happy"
          THEN mapnMap(gram, a.state,
                       [a.outs EXCEPT ![IF e.idx \in 0..3 THEN e.idx + 1
                                        ELSE MaxParsers] = r.out],
                       cache, TRUE) @@ [icache |-> e.icache]
          ELSE Returns(a.state, ZeroOut, cache, TRUE, FALSE) @@ [icache |-> e.icache]
          : r \in {It(SubParser(gram, e.idx), a.remaining)}} : TRUE
       : e \in {EscapeIndex(gram, icache, a)}} : TRUE

mapnAny(gram, cache, a, invoked) ==
    IF a.startIdx >= gram.n
    THEN IF a.state.mode = "happy"
         THEN mapnMap(gram, a.state, a.outs, cache, invoked)
         ELSE Returns(a.state, ZeroOut, cache, invoked, FALSE)
    ELSE CASE a.state.mode = "happy" -> Calls("sequenceHappy", a, cache, invoked)
           [] a.state.mode = "error" -> Calls("mapnError", a, cache, invoked)
           [] a.state.mode = "handle" -> Calls("mapnHandle", a, cache, invoked)
           [] a.state.mode = "rewind" -> Calls("mapnRewind", a, cache, invoked)
           [] a.state.mode = "escape" -> Calls("mapnEscape", a, cache, invoked)
           [] OTHER ->
                Returns(NewSemanticError(a.state,
                            "programming error: MapN didn't handle parsing mode"),
                        ZeroOut, cache, invoked, FALSE)

\* ------------------------------------------------------------------------
\* Specification SpecRecover: the closure DefaultRecovererFunc returns, run on
\* one State for one parser.
\* ------------------------------------------------------------------------
RecTexts == SeqsUpTo({"a", "L", "c"}, MaxLen)

RecOff ==
    /\ rParse = EpsParser
    /\ rState = ZeroState
    /\ rCur = ZeroState
    /\ rpc = "off"
    /\ rWaste = -2

CombOff ==
    /\ cState = ZeroState
    /\ cKids = <<>>
    /\ cCache = <<>>
    /\ cLast = [pos |-> -1, waste |-> -2, hit |-> FALSE, calls |-> 0]
    /\ cComputed = <<>>

\* No later failure was seen.
NoSecond == [id |-> 0, pos |-> 0, idx |-> 0, mode |-> "none", handled |-> FALSE]

WitOff ==
    /\ wEntry = ZeroState
    /\ wParsers = <<>>
    /\ wState = ZeroState
    /\ wOut = ZeroOut
    /\ wpc = "off"
    /\ wCalls = 0
    /\ wTry = NoTry
    /\ wSecond = NoSecond

SeqOff ==
    /\ sGram = [n |-> 0, ps |-> <<>>, fnErr |-> FALSE]
    /\ sEntry = ZeroState
    /\ sArgs = ZeroArgs
    /\ spc = "off"
    /\ sRet = [st |-> ZeroState, out |-> ZeroOut]
    /\ sCache = <<>>
    /\ sIdxCache = <<>>
    /\ sInvoked = FALSE
    /\ sHit = FALSE
    /\ sRun = [valid |-> FALSE, st |-> ZeroState, out |-> ZeroOut]

\* The arguments of a call that takes none: count 0, the zero ParserResult (of
\* which SucceedAgain reads SaveSpot and Consumed), the zero State.
ZeroOpArg == [count |-> 0, result |-> [SaveSpot |-> 0, Consumed |-> 0],
              other |-> ZeroState]

OpsOff ==
    /\ oSt = ZeroState
    /\ oOp = "off"
    /\ oArg = ZeroOpArg
    /\ oNew = ZeroState
    /\ oCnt = 0

ModeOff ==
    /\ tA = ZeroState
    /\ tB = ZeroState
    /\ tOld = ZeroState
    /\ tOp = "off"
    /\ tN = 0

\* No ancestor has called IWitnessed.
NoClaim == [id |-> 0, pos |-> 0, idx |-> 0]

ChainOff ==
    /\ kErr = ZeroState
    /\ kFirst = NoClaim
    /\ kDepth = 0

\* The goroutines that build parsers and recoverers.
MaxProcs == 2

Procs == 1..MaxProcs

\* cachingRecovererIDs, combiningRecovererIDs, combiningParserIDs, callIDs
Allocators == {"cachingRecovererIDs", "combiningRecovererIDs",
               "combiningParserIDs", "callIDs"}

IDsOff ==
    /\ iCounters = [a \in Allocators |-> 0]
    /\ iIssued = [a \in Allocators |-> <<>>]
    /\ ipc = [p \in Procs |-> "off"]

ClearOff ==
    /\ qHeap = <<>>
    /\ qRefs = <<>>
    /\ qSt = <<>>
    /\ qLast = [op |-> "off", st |-> 0, held |-> FALSE]
    /\ qN = 0

BoundOff ==
    /\ bKind = [cache |-> "off", maxRecursion |-> 0]
    /\ bSt = ZeroState
    /\ bCache = <<>>
    /\ bCount = [rewinds |-> 0, purges |-> 0]
    /\ bLast = [op |-> "off", new |-> FALSE, full |-> FALSE]

ShareOff ==
    /\ hKind = "off"
    /\ hHeap = <<>>
    /\ hRefs = <<>>
    /\ hSt = <<>>
    /\ hLive = {}
    /\ hCount = 0
    /\ hLast = [op |-> "off"]

LateOff == ShareOff

ExtraOff == IDsOff /\ ClearOff /\ BoundOff /\ LateOff

PureOff == OpsOff /\ ModeOff /\ ChainOff /\ ExtraOff

CoreOff == RecOff /\ CombOff /\ WitOff /\ SeqOff

RecInit ==
    /\ \E text \in RecTexts, binary \in BOOLEAN, maxDel \in 1..MaxMaxDel :
         \E p \in 0..Len(text), S \in SUBSET (0..Len(text)) :
            /\ rState = MoveBy(NewState(text, binary, maxDel), p)
            /\ rParse = AtParser(S)
    /\ rCur = rState
    /\ rpc = "test"
    /\ rWaste = -2
    /\ CombOff
    /\ WitOff
    /\ SeqOff
    /\ PureOff

\* for curState.BytesRemaining() > 0
RecTest ==
    /\ rpc = "test"
    /\ IF BytesRemaining(rCur) > 0
       THEN rpc' = "parse" /\ rWaste' = rWaste
       ELSE rpc' = "done" /\ rWaste' = -1
    /\ UNCHANGED <<rParse, rState, rCur, combVars, witVars, seqVars, pureVars>>

\* newState, _ := parse(curState); if !newState.Failed() { return ... }
RecParse ==
    /\ rpc = "parse"
    /\ IF ~Failed(It(rParse, rCur).st)
       THEN rpc' = "done" /\ rWaste' = ByteCount(rState, rCur)
       ELSE rpc' = "delete" /\ rWaste' = rWaste
    /\ UNCHANGED <<rParse, rState, rCur, combVars, witVars, seqVars, pureVars>>

\* curState = curState.Delete(1)
RecDelete ==
    /\ rpc = "delete"
    /\ rCur' = Delete(rCur, 1)
    /\ rpc' = "test"
    /\ UNCHANGED <<rParse, rState, rWaste, combVars, witVars, seqVars, pureVars>>

RecNext == RecTest \/ RecParse \/ RecDelete

SpecRecover == RecInit /\ [][RecNext]_vars /\ WF_vars(RecNext)

\* ------------------------------------------------------------------------
\* Specification SpecCombine: one CombiningRecoverer (the first one built, so
\* its id is 1) called at the positions of one input.
\* ------------------------------------------------------------------------
CombInit ==
    /\ \E text \in SeqsUpTo({"a", "b"}, CombLen), binary \in BOOLEAN :
         cState = NewState(text, binary, MaxMaxDel)
    /\ cKids \in SeqsUpTo({"a", "b", "z"}, MaxKids)
    /\ cCache = <<>>
    /\ cLast = [pos |-> -1, waste |-> -2, hit |-> FALSE, calls |-> 0]
    /\ cComputed = <<>>
    /\ RecOff
    /\ WitOff
    /\ SeqOff
    /\ PureOff

\* crc.Recover(state) with the cursor of state at position p.
CombRecover(p) ==
    LET r == Recover(cKids, CombID, cCache, MoveBy(cState, p))
    IN /\ cCache' = r.cache
       /\ cLast' = [pos |-> p, waste |-> r.waste, hit |-> r.hit, calls |-> r.calls]
       /\ cComputed' = IF r.hit THEN cComputed ELSE (p :> r.waste) @@ cComputed
       /\ UNCHANGED <<cState, cKids, recVars, witVars, seqVars, pureVars>>

CombNext == \E p \in 0..InputN(cState) : CombRecover(p)

SpecCombine == CombInit /\ [][CombNext]_vars

\* The wastes the children report at position p, and the least usable one.
KidWastes(p) == {Recoverer(cKids[i], MoveBy(cState, p)) : i \in 1..Len(cKids)}

MinKidWaste(p) ==
    LET usable == KidWastes(p) \ {-1}
    IN IF usable = {} THEN -1 ELSE CHOOSE w \in usable : \A v \in usable : w <= v

\* C7: on a cache miss Recover returns the least non-negative waste of its
\* children (-1 exactly when every child returns -1 or there is no child); on
\* a cache hit it returns the waste computed earlier for that position.
C7_CombiningOptimal ==
    cLast.pos >= 0 =>
        IF cLast.hit THEN cLast.waste = cComputed[cLast.pos]
        ELSE cLast.waste = MinKidWaste(cLast.pos)

\* The children (1-based) that report waste 0 at position p.
ZeroKids(p) == {i \in 1..Len(cKids) : Recoverer(cKids[i], MoveBy(cState, p)) = 0}

\* The first of them.
FirstZeroKid(p) == CHOOSE i \in ZeroKids(p) : \A j \in ZeroKids(p) : i <= j

\* C30: on a cache miss at which a child reports waste 0, Recover invokes no
\* child after the first that does, and the index it caches is that child's.
C30_StopsAtFirstZero ==
    (cLast.pos >= 0 /\ ~cLast.hit /\ ZeroKids(cLast.pos) # {}) =>
        /\ cLast.calls = FirstZeroKid(cLast.pos)
        /\ CachedIndex(CombID, cCache, MoveBy(cState, cLast.pos)).idx
              = FirstZeroKid(cLast.pos) - 1

\* A miss at which a child reporting 0 is followed by one reporting more.
C7_Witness ==
    /\ cLast.pos >= 0 /\ ~cLast.hit
    /\ \E i, j \in 1..Len(cKids) :
          /\ i < j
          /\ Recoverer(cKids[i], MoveBy(cState, cLast.pos)) = 0
          /\ Recoverer(cKids[j], MoveBy(cState, cLast.pos)) > 0

\* ------------------------------------------------------------------------
\* Specification SpecWitness: HandleWitness called by the witness parser (id
\* WitID) for its only sub-parser, the culprit.  The culprit failed in mode
\* happy at the witness position, the parent claimed the error (IWitnessed),
\* and the parse came back to the witness in mode handle.  Whenever the
\* witness returns in mode happy the rest of the parse either goes on or fails
\* and comes back to the witness in mode rewind.  Once the parse went on, a
\* child of a later branch parser may fail and that parser claim the error.
\* ------------------------------------------------------------------------
WitID == 1

\* The ID of the branch parser that sees the next failure.
NextID == 2

WitTexts == SeqsUpTo({"a", " ", "\n"}, MaxLen)

\* The state of the witness parser after its culprit failed on `base`.
Witnessed(base, parse) == IWitnessed(base, WitID, 0, It(parse, base).st)

WitInit ==
    /\ \E text \in WitTexts, binary \in BOOLEAN, maxDel \in 1..MaxMaxDel :
         \E p \in 0..Len(text), b \in {"a", "z"} :
            LET base == MoveBy(NewState(text, binary, maxDel), p)
            IN /\ Failed(It(LitParser(b), base).st)
               /\ wParsers = <<LitParser(b)>>
               /\ wEntry = [Witnessed(base, LitParser(b)) EXCEPT !.mode = "handle"]
    /\ wState = wEntry
    /\ wOut = ZeroOut
    /\ wpc = "call"
    /\ wCalls = 0
    /\ wTry = NoTry
    /\ wSecond = NoSecond
    /\ RecOff
    /\ CombOff
    /\ SeqOff
    /\ PureOff

\* The part of HandleWitness before its loop.
WitCall ==
    /\ wpc = "call"
    /\ IF ~IsWitness(wState, WitID)
       THEN LET r == It(wParsers[1], wState)
            IN wState' = r.st /\ wOut' = r.out /\ wpc' = "ret"
       ELSE /\ wState' = WitnessCulprit(wState, Len(wParsers))
            /\ wOut' = ZeroOut
            /\ wpc' = "loop"
    /\ UNCHANGED <<wEntry, wParsers, wCalls, wTry, wSecond,
                   recVars, combVars, seqVars, pureVars>>

\* One pass of the loop of HandleWitness.
WitIter ==
    /\ wpc = "loop"
    /\ \E r \in {HandleWitnessIter(wState, wEntry.pos,
                                  wParsers[wState.errHand.culpritIdx + 1])} :
          /\ wState' = r.st
          /\ wOut' = r.out
          /\ wpc' = IF r.ret THEN "ret" ELSE "loop"
          /\ wCalls' = IF r.called THEN wCalls + 1 ELSE wCalls
          /\ wTry' = IF r.called
                     THEN [called |-> TRUE, matched |-> r.matched,
                           st |-> r.try.st, out |-> r.try.out]
                     ELSE NoTry
    /\ UNCHANGED <<wEntry, wParsers, wSecond, recVars, combVars, seqVars, pureVars>>

\* The witness returned in mode happy and what follows the culprit failed:
\* the parse comes back to the witness in mode rewind with that error.
WitReenter ==
    /\ wpc = "ret"
    /\ wState.mode = "happy"
    /\ wState' = [wEntry EXCEPT !.mode = "rewind",
                                !.errHand = NewError(wState, "next").errHand]
    /\ wpc' = "call"
    /\ wTry' = NoTry
    /\ UNCHANGED <<wEntry, wParsers, wOut, wCalls, wSecond,
                   recVars, combVars, seqVars, pureVars>>

\* The witness returned in mode happy and the rest of the parse succeeded.
WitContinue ==
    /\ wpc = "ret"
    /\ wState.mode = "happy"
    /\ wpc' = "end"
    /\ UNCHANGED <<wEntry, wParsers, wState, wOut, wCalls, wTry, wSecond,
                   recVars, combVars, seqVars, pureVars>>

\* The parse went on by q bytes to another branch parser (id NextID), whose
\* child of index idx failed where that parser started: the child calls
\* NewError and the branch parser claims the error with IWitnessed.
WitSecond ==
    /\ wpc = "end"
    /\ \E q \in 0..BytesRemaining(wState), idx \in 0..1 :
         \E e \in {NewError(MoveBy(wState, q), "next")} :
            /\ wState' = IWitnessed(MoveBy(wState, q), NextID, idx, e)
            /\ wSecond' = [id |-> NextID, pos |-> wState.pos + q, idx |-> idx,
                           mode |-> e.mode,
                           handled |-> wTry.matched /\ ~Failed(wState)]
    /\ wpc' = "second"
    /\ wTry' = NoTry
    /\ UNCHANGED <<wEntry, wParsers, wOut, wCalls, recVars, combVars, seqVars, pureVars>>

WitNext == WitCall \/ WitIter \/ WitReenter \/ WitContinue \/ WitSecond

SpecWitness == WitInit /\ [][WitNext]_vars /\ WF_vars(WitNext)

\* C1: bounded retries: from the entry of HandleWitness at the witness in mode
\* handle, re-entered in mode rewind after every failed continuation, the
\* culprit is invoked at most maxDel + 1 times, and unless a continuation
\* succeeds the witness then returns in mode escape.
C1_BoundedRetries ==
    /\ [](wCalls <= wEntry.maxDel + 1)
    /\ <>(wpc = "end" \/ (wpc = "ret" /\ wState.mode = "escape"))

\* The witness gave up after the culprit had failed on every attempt.
C1_Witness ==
    /\ wpc = "ret" /\ wState.mode = "escape"
    /\ wCalls = wEntry.maxDel
    /\ wParsers[1].lit = "z"

\* ------------------------------------------------------------------------
\* Specification SpecOps: one call of a method of State that moves the cursor
\* (MoveBy, Delete, SucceedAgain, ByteCount) or of a deleter, on a State at
\* any position of a text or binary input, with any count: negative, zero,
\* within the input, beyond its end.
\* ------------------------------------------------------------------------
\* Bytes of every rune class of the text deleter; "L" followed by "c" is the
\* two-byte letter, either byte alone is invalid UTF-8.
OpsAlphabet == {"a", ",", " ", "}", "L", "c"}

OpsTexts ==
    SeqsUpTo(OpsAlphabet, MaxLen)
        \cup SeqsUpTo({"a", "\n"}, MaxLen)
        \cup {<<"a", "b", ",", " ", "1", "2">>, <<"a", "b", "}", ")", " ", "a">>}

OpsCounts == (0 - 1)..(MaxLen + 1)

\* The States a sub-parser run on st can return: st moved on by what it
\* matched, the mark left alone or set to the end of the match, or st failed.
OpsSubStates(st) ==
    {[MoveBy(st, k) EXCEPT !.saveSpot = IF save THEN MoveBy(st, k).pos ELSE @]
        : k \in 0..1, save \in BOOLEAN}
        \cup {NewError(st, "a")}

\* A State on some other input, at position q.
OpsOther(q) == MoveBy(NewState([i \in 1..(MaxLen + 1) |-> "a"], TRUE, 0), q)

OpsInit ==
    /\ \E text \in OpsTexts, binary \in BOOLEAN :
         \E p \in 0..Len(text) : \E mark \in {0 - 1, p} :
            oSt = [MoveBy(NewState(text, binary, 0), p) EXCEPT !.saveSpot = mark]
    /\ oOp = "none"
    /\ oArg = ZeroOpArg
    /\ oNew = ZeroState
    /\ oCnt = 0
    /\ ModeOff
    /\ ChainOff
    /\ CoreOff
    /\ ExtraOff

OpsMoveBy ==
    /\ oOp = "none"
    /\ \E k \in OpsCounts :
          /\ oArg' = [ZeroOpArg EXCEPT !.count = k]
          /\ oNew' = MoveBy(oSt, k)
    /\ oOp' = "MoveBy"
    /\ UNCHANGED <<oSt, oCnt, modeVars, chainVars, recVars, combVars, witVars, seqVars,
                   extraVars>>

OpsDelete ==
    /\ oOp = "none"
    /\ \E k \in OpsCounts :
          /\ oArg' = [ZeroOpArg EXCEPT !.count = k]
          /\ oNew' = Delete(oSt, k)
    /\ oOp' = "Delete"
    /\ UNCHANGED <<oSt, oCnt, modeVars, chainVars, recVars, combVars, witVars, seqVars,
                   extraVars>>

OpsBinaryDeleter ==
    /\ oOp = "none"
    /\ \E k \in OpsCounts :
          /\ oArg' = [ZeroOpArg EXCEPT !.count = k]
          /\ oNew' = DefaultBinaryDeleter(oSt, k)
    /\ oOp' = "DefaultBinaryDeleter"
    /\ UNCHANGED <<oSt, oCnt, modeVars, chainVars, recVars, combVars, witVars, seqVars,
                   extraVars>>

OpsTextDeleter ==
    /\ oOp = "none"
    /\ \E k \in OpsCounts :
          /\ oArg' = [ZeroOpArg EXCEPT !.count = k]
          /\ oNew' = DefaultTextDeleter(oSt, k)
    /\ oOp' = "DefaultTextDeleter"
    /\ UNCHANGED <<oSt, oCnt, modeVars, chainVars, recVars, combVars, witVars, seqVars,
                   extraVars>>

OpsSucceedAgain ==
    /\ oOp = "none"
    /\ \E k \in OpsCounts, s \in (0 - 1)..1 :
          /\ oArg' = [ZeroOpArg EXCEPT !.result = [SaveSpot |-> s, Consumed |-> k]]
          /\ oNew' = SucceedAgain(oSt, [SaveSpot |-> s, Consumed |-> k])
    /\ oOp' = "SucceedAgain"
    /\ UNCHANGED <<oSt, oCnt, modeVars, chainVars, recVars, combVars, witVars, seqVars,
                   extraVars>>

OpsByteCount ==
    /\ oOp = "none"
    /\ \E q \in 0..(MaxLen + 1) :
          /\ oArg' = [ZeroOpArg EXCEPT !.other = OpsOther(q)]
          /\ oCnt' = ByteCount(oSt, OpsOther(q))
    /\ oOp' = "ByteCount"
    /\ UNCHANGED <<oSt, oNew, modeVars, chainVars, recVars, combVars, witVars, seqVars,
                   extraVars>>

OpsSucceed ==
    /\ oOp = "none"
    /\ \E sub \in OpsSubStates(oSt) :
          /\ oArg' = [ZeroOpArg EXCEPT !.other = sub]
          /\ oNew' = Succeed(oSt, sub)
    /\ oOp' = "Succeed"
    /\ UNCHANGED <<oSt, oCnt, modeVars, chainVars, recVars, combVars, witVars, seqVars,
                   extraVars>>

OpsPreserve ==
    /\ oOp = "none"
    /\ \E sub \in OpsSubStates(oSt) :
          /\ oArg' = [ZeroOpArg EXCEPT !.other = sub]
          /\ oNew' = Preserve(oSt, sub)
    /\ oOp' = "Preserve"
    /\ UNCHANGED <<oSt, oCnt, modeVars, chainVars, recVars, combVars, witVars, seqVars,
                   extraVars>>

OpsFail ==
    /\ oOp = "none"
    /\ \E sub \in OpsSubStates(oSt) :
          /\ oArg' = [ZeroOpArg EXCEPT !.other = sub]
          /\ oNew' = Fail(oSt, sub)
    /\ oOp' = "Fail"
    /\ UNCHANGED <<oSt, oCnt, modeVars, chainVars, recVars, combVars, witVars, seqVars,
                   extraVars>>

OpsNext ==
    \/ OpsSucceed
    \/ OpsPreserve
    \/ OpsFail
    \/ OpsMoveBy
    \/ OpsDelete
    \/ OpsBinaryDeleter
    \/ OpsTextDeleter
    \/ OpsSucceedAgain
    \/ OpsByteCount

SpecOps == OpsInit /\ [][OpsNext]_vars

\* The functions of SpecOps that return a State moved along the input.
OpsMoving ==
    {"MoveBy", "Delete", "DefaultBinaryDeleter", "DefaultTextDeleter", "SucceedAgain"}

\* C13: the mark never goes back: Succeed, Preserve, Fail, MoveBy and
\* SucceedAgain return a State whose saveSpot is at least the receiver's.
C13_SaveSpotMonotone ==
    oOp \in {"Succeed", "Preserve", "Fail", "MoveBy", "SucceedAgain"}
        => oNew.saveSpot >= oSt.saveSpot

\* C12: the cursor never goes back and never leaves the input: whatever the
\* count (negative, zero, beyond the end), MoveBy, Delete, both deleters and
\* SucceedAgain return a State with old pos <= new pos <= n, and ByteCount is
\* never negative.
C12_CursorMonotoneAndBounded ==
    /\ oOp \in OpsMoving => (oSt.pos <= oNew.pos /\ oNew.pos <= InputN(oSt))
    /\ oOp = "ByteCount" => oCnt >= 0

\* Every way of asking for too much or too little happened: a negative count,
\* a count beyond the end of the input, and a ByteCount towards a State that
\* lies before the receiver.
C12_Witness ==
    \/ oOp = "MoveBy" /\ oArg.count < 0 /\ oSt.pos > 0 /\ oNew.pos = oSt.pos
    \/ oOp = "DefaultTextDeleter" /\ oArg.count > BytesRemaining(oSt)
          /\ oSt.pos < InputN(oSt) /\ oNew.pos = InputN(oSt)
    \/ oOp = "ByteCount" /\ oArg.other.pos < oSt.pos /\ oCnt = 0

\* The byte length of the first m runes of s.
RunesLength(s, m) ==
    LET starts == RuneStarts(s)
    IN IF m >= Len(starts) THEN Len(s) ELSE starts[m + 1]

\* C20: Delete(count) with count >= 1 moves a binary input on by min(count,
\* bytes remaining) bytes and a text input by exactly the byte length of its
\* next min(count, runes remaining) runes; with count <= 0 it returns the
\* State unchanged.
\* The newlines (1-based) among the first p bytes of text.
NewlinesBefore(text, p) == {i \in 1..p : text[i] = "\n"}

\* Byte offset of the last of them; the initial prevNl if there is none.
LastNewlineBefore(text, p) ==
    IF NewlinesBefore(text, p) = {} THEN NewState(text, FALSE, 0).prevNl
    ELSE (CHOOSE i \in NewlinesBefore(text, p) :
              \A j \in NewlinesBefore(text, p) : j <= i) - 1

LineTracked(st) ==
    /\ st.prevNl = LastNewlineBefore(st.text, st.pos)
    /\ st.line = 1 + Cardinality(NewlinesBefore(st.text, st.pos))

\* C21: on text input, after MoveBy calls that started at position 0, prevNl
\* is the byte offset of the last newline before pos (the initial value if
\* there is none) and line is 1 plus the number of newlines before pos.
C21_LineTracking ==
    ~oSt.binary => /\ LineTracked(oSt)
                   /\ oOp = "MoveBy" => LineTracked(oNew)

C20_DeleteMovesByUnits ==
    oOp = "Delete" =>
        IF oArg.count <= 0 THEN oNew = oSt
        ELSE IF oSt.binary
        THEN oNew.pos = oSt.pos + Min(oArg.count, BytesRemaining(oSt))
        ELSE oNew.pos = oSt.pos + RunesLength(CurrentString(oSt), oArg.count)

\* The rune classes of the runes of s, in order.
RuneClasses(s) ==
    LET starts == RuneStarts(s)
    IN [j \in 1..Len(starts) |-> RuneType(RuneAt(s, starts[j] + 1))]

\* The runes of s (by index) whose class differs from the class of the rune
\* before and is not the space class.
Transitions(s) ==
    LET cls == RuneClasses(s)
    IN {j \in 2..Len(cls) : cls[j] # cls[j - 1] /\ cls[j] # " "}

\* The byte offset in s of the rune that makes the count-th such transition,
\* the length of s when there are fewer.
TransitionOffset(s, count) ==
    LET trans == Transitions(s)
    IN IF Cardinality(trans) < count THEN Len(s)
       ELSE RuneStarts(s)[CHOOSE j \in trans :
                             Cardinality({i \in trans : i <= j}) = count]

\* The State at the start of the text input "ab, 12".
AbComma12 == NewState(<<"a", "b", ",", " ", "1", "2">>, FALSE, 0)

\* The State at the start of the text input "ab}) a".
AbBrackets == NewState(<<"a", "b", "}", ")", " ", "a">>, FALSE, 0)

\* The text deleter was called with a count >= 1.
TextDeleterCalled == oOp = "DefaultTextDeleter" /\ oArg.count >= 1

\* The rule of the text deleter: it stops at the rune that makes the count-th
\* change into a class other than space, at the end of the input when there
\* are fewer changes; on "ab, 12" a count of 1 ends just past "ab".
TextDeleterRule ==
    TextDeleterCalled =>
        /\ oNew.pos = oSt.pos + TransitionOffset(CurrentString(oSt), oArg.count)
        /\ (oSt = AbComma12 /\ oArg.count = 1) => oNew.pos = 2

\* C18 as stated: the rule of the text deleter, and on "ab, 12" a count of 2
\* ends just past "ab,", in front of the space.
C18_TextDeleterStopsAsStated ==
    /\ TextDeleterRule
    /\ (TextDeleterCalled /\ oSt = AbComma12 /\ oArg.count = 2) => oNew.pos = 3

\* C18 amended: the rule of the text deleter, and on "ab, 12" a count of 2 ends
\* past "ab, ", at the "1" that makes the second change into a class other than
\* space.
C18_TextDeleterStopsAtTransition ==
    /\ TextDeleterRule
    /\ (TextDeleterCalled /\ oSt = AbComma12 /\ oArg.count = 2) => oNew.pos = 4

\* The deleter was asked for two changes on "ab, 12" and skipped the space.
C18_Witness ==
    /\ TextDeleterCalled
    /\ oSt = AbComma12
    /\ oArg.count = 2
    /\ CurrentString(oNew) = <<"1", "2">>

\* C19: two brackets in a row that differ are two changes: where a word is
\* followed by "})" the text deleter stops at "}" for a count of 1 and at ")"
\* for a count of 2.
C19_DifferingBracketsCountTwice ==
    \A w \in 1..2 :
        LET cur == CurrentString(oSt)
        IN (/\ TextDeleterCalled
            /\ Len(cur) >= w + 2
            /\ \A i \in 1..w : RuneType(cur[i]) = "a"
            /\ cur[w + 1] = "}"
            /\ cur[w + 2] = ")")
           => /\ oArg.count = 1 => oNew.pos = oSt.pos + w
              /\ oArg.count = 2 => oNew.pos = oSt.pos + w + 1

\* ------------------------------------------------------------------------
\* Specification SpecMode: the States a parse can build by calling the methods
\* of State that set the mode, the error, the witness and the mark, in any
\* order: tA is the State in hand, tB a State kept from earlier and passed
\* where a method takes the State of a sub-parser.
\* ------------------------------------------------------------------------
MaxCalls == 5

ModeIDs == {WitID}

ModeTexts == {<<"b", "a">>}

\* The sub-parser the witness of SpecMode retries.
ModeParsers == <<LitParser("a")>>

\* The grammar of a sequence of one parser whose mapper fails or does not.
ModeGrammar(fnErr) == [n |-> 1, ps |-> ModeParsers, fnErr |-> fnErr]

ModeInit ==
    /\ \E text \in ModeTexts : tA = NewState(text, FALSE, 1)
    /\ tB = tA
    /\ tOld = tA
    /\ tOp = "none"
    /\ tN = 0
    /\ OpsOff
    /\ ChainOff
    /\ CoreOff
    /\ ExtraOff

\* The sequences of calls are cut at MaxCalls calls.
ModeReady == tN < MaxCalls

ModeNewError ==
    /\ ModeReady
    /\ tA' = NewError(tA, "a")
    /\ tOp' = "NewError"
    /\ tOld' = tA
    /\ tN' = tN + 1
    /\ UNCHANGED <<tB, opsVars, chainVars, recVars, combVars, witVars, seqVars,
                   extraVars>>

ModeErrorAgain ==
    /\ ModeReady
    /\ tB.errHand.err # NoErr
    /\ tA' = ErrorAgain(tA, tB.errHand.err)
    /\ tOp' = "ErrorAgain"
    /\ tOld' = tA
    /\ tN' = tN + 1
    /\ UNCHANGED <<tB, opsVars, chainVars, recVars, combVars, witVars, seqVars,
                   extraVars>>

ModeNewSemanticError ==
    /\ ModeReady
    /\ tA' = NewSemanticError(tA, "semantic")
    /\ tOp' = "NewSemanticError"
    /\ tOld' = tA
    /\ tN' = tN + 1
    /\ UNCHANGED <<tB, opsVars, chainVars, recVars, combVars, witVars, seqVars,
                   extraVars>>

ModeSucceed ==
    /\ ModeReady
    /\ tA' = Succeed(tA, tB)
    /\ tOp' = "Succeed"
    /\ tOld' = tA
    /\ tN' = tN + 1
    /\ UNCHANGED <<tB, opsVars, chainVars, recVars, combVars, witVars, seqVars,
                   extraVars>>

ModePreserve ==
    /\ ModeReady
    /\ tA' = Preserve(tA, tB)
    /\ tOp' = "Preserve"
    /\ tOld' = tA
    /\ tN' = tN + 1
    /\ UNCHANGED <<tB, opsVars, chainVars, recVars, combVars, witVars, seqVars,
                   extraVars>>

ModeFail ==
    /\ ModeReady
    /\ tA' = Fail(tA, tB)
    /\ tOp' = "Fail"
    /\ tOld' = tA
    /\ tN' = tN + 1
    /\ UNCHANGED <<tB, opsVars, chainVars, recVars, combVars, witVars, seqVars,
                   extraVars>>

ModeIWitnessed ==
    /\ ModeReady
    /\ \E id \in ModeIDs : tA' = IWitnessed(tA, id, 0, tB)
    /\ tOp' = "IWitnessed"
    /\ tOld' = tA
    /\ tN' = tN + 1
    /\ UNCHANGED <<tB, opsVars, chainVars, recVars, combVars, witVars, seqVars,
                   extraVars>>

ModeHandleWitness ==
    /\ ModeReady
    /\ \E id \in ModeIDs : tA' = HandleWitness(tA, id, 0, ModeParsers).st
    /\ tOp' = "HandleWitness"
    /\ tOld' = tA
    /\ tN' = tN + 1
    /\ UNCHANGED <<tB, opsVars, chainVars, recVars, combVars, witVars, seqVars,
                   extraVars>>

\* A sub-parser matched one byte.
ModeMoveBy ==
    /\ ModeReady
    /\ tA' = MoveBy(tA, 1)
    /\ tOld' = tA
    /\ tOp' = "MoveBy"
    /\ tN' = tN + 1
    /\ UNCHANGED <<tB, opsVars, chainVars, recVars, combVars, witVars, seqVars,
                   extraVars>>

ModeMapnMap ==
    /\ ModeReady
    /\ \E fnErr \in BOOLEAN :
          /\ tA' = mapnMap(ModeGrammar(fnErr), tA, ZeroOuts, <<>>, FALSE).st
          /\ tOp' = IF fnErr THEN "mapnMap error" ELSE "mapnMap"
    /\ tOld' = tA
    /\ tN' = tN + 1
    /\ UNCHANGED <<tB, opsVars, chainVars, recVars, combVars, witVars, seqVars,
                   extraVars>>

\* The parse keeps the State in hand for later (Go copies a State by value).
ModeKeep ==
    /\ tB' = tA
    /\ tOld' = tA
    /\ tOp' = "keep"
    /\ UNCHANGED tN
    /\ UNCHANGED <<tA, opsVars, chainVars, recVars, combVars, witVars, seqVars,
                   extraVars>>

\* The parse goes on with the State it kept.
ModeSwap ==
    /\ tA' = tB
    /\ tB' = tA
    /\ tOld' = tB
    /\ tOp' = "swap"
    /\ UNCHANGED tN
    /\ UNCHANGED <<opsVars, chainVars, recVars, combVars, witVars, seqVars,
                   extraVars>>

ModeNext ==
    \/ ModeNewError
    \/ ModeErrorAgain
    \/ ModeNewSemanticError
    \/ ModeSucceed
    \/ ModePreserve
    \/ ModeFail
    \/ ModeIWitnessed
    \/ ModeHandleWitness
    \/ ModeMoveBy
    \/ ModeMapnMap
    \/ ModeKeep
    \/ ModeSwap

SpecMode == ModeInit /\ [][ModeNext]_vars

\* C11: whatever the sequence of calls, no State is in mode rewind without a
\* witness (witnessID = 0).
C11_RewindHasWitness ==
    /\ tA.mode = "rewind" => tA.errHand.witnessID # 0
    /\ tB.mode = "rewind" => tB.errHand.witnessID # 0

\* The last call ended in NewSemanticError: NewSemanticError itself, mapnMap
\* with a mapper that returned an error, NewError or ErrorAgain in a mode
\* other than happy.
SemanticErrorAdded ==
    \/ tOp \in {"NewSemanticError", "mapnMap error"}
    \/ tOp \in {"NewError", "ErrorAgain"} /\ tOld.mode # "happy"

\* C17: a semantic error is appended to the accumulated errors and nothing
\* else changes: exactly one error more, the errors before it kept, and the
\* mode, the current error, the witness data, the position and the mark as
\* they were.
C17_SemanticErrorFrame ==
    SemanticErrorAdded =>
        /\ Len(tA.oldErrors) = Len(tOld.oldErrors) + 1
        /\ SubSeq(tA.oldErrors, 1, Len(tOld.oldErrors)) = tOld.oldErrors
        /\ tA.mode = tOld.mode
        /\ tA.errHand.err = tOld.errHand.err
        /\ tA.errHand.witnessID = tOld.errHand.witnessID
        /\ tA.errHand.witnessPos = tOld.errHand.witnessPos
        /\ tA.errHand.culpritIdx = tOld.errHand.culpritIdx
        /\ tA.pos = tOld.pos
        /\ tA.saveSpot = tOld.saveSpot

\* ErrorAgain was called on a State in mode rewind that already carried an
\* error and a witness.
C17_Witness ==
    /\ tOp = "ErrorAgain"
    /\ tOld.mode = "rewind"
    /\ tOld.errHand.err # NoErr
    /\ tOld.errHand.witnessID # 0
    /\ Len(tA.oldErrors) = Len(tOld.oldErrors) + 1

\* ------------------------------------------------------------------------
\* Specification SpecChain: a leaf parser failed in mode happy and the error
\* goes up through the branch parsers above it, innermost first; each of them
\* started at or before the position its child started at, was entered with
\* no error, and calls IWitnessed with its own ID and the index of the child.
\* ------------------------------------------------------------------------
MaxDepth == 3

ChainIDs == 1..MaxDepth

ChainTexts == {<<"b", "b">>}

\* The State an ancestor was entered with, at position q of the input of st.
ChainAncestor(st, q) == MoveBy(NewState(st.text, st.binary, st.maxDel), q)

ChainInit ==
    /\ \E text \in ChainTexts :
         \E p \in 0..Len(text) :
            kErr = NewError(MoveBy(NewState(text, FALSE, 1), p), "a")
    /\ kFirst = NoClaim
    /\ kDepth = 0
    /\ OpsOff
    /\ ModeOff
    /\ CoreOff
    /\ ExtraOff

ChainIWitnessed ==
    /\ kDepth < MaxDepth
    /\ \E id \in ChainIDs, idx \in 0..(MaxParsers - 1), q \in 0..kErr.pos :
          /\ kErr' = IWitnessed(ChainAncestor(kErr, q), id, idx, kErr)
          /\ kFirst' = IF kErr.errHand.witnessID = 0
                        THEN [id |-> id, pos |-> q, idx |-> idx]
                        ELSE kFirst
    /\ kDepth' = kDepth + 1
    /\ UNCHANGED <<opsVars, modeVars, recVars, combVars, witVars, seqVars,
                   extraVars>>

ChainNext == ChainIWitnessed

SpecChain == ChainInit /\ [][ChainNext]_vars

\* C14: the claim of a witness is made once: after any number of IWitnessed
\* calls by the ancestors of the failed parser, witnessID, witnessPos and
\* culpritIdx are the ID, the start position and the index of the first
\* ancestor, the one that saw witnessID = 0.
C14_WitnessClaimedOnce ==
    kDepth >= 1 =>
        /\ kErr.errHand.witnessID = kFirst.id
        /\ kErr.errHand.witnessPos = kFirst.pos
        /\ kErr.errHand.culpritIdx = kFirst.idx
        /\ kFirst.id # 0

\* A second ancestor, started before the first, called IWitnessed and the
\* position claimed is still the first one's.
C14_Witness ==
    /\ kDepth >= 2
    /\ kErr.pos < kFirst.pos
    /\ kErr.errHand.witnessPos = kFirst.pos
    /\ kErr.errHand.err # NoErr

\* NewError or ErrorAgain was called on a State in mode happy.
FailedInHappy == tOp \in {"NewError", "ErrorAgain"} /\ tOld.mode = "happy"

\* The error NewError or ErrorAgain was called with.
FailedWith ==
    IF tOp = "NewError" THEN NewParserError(tOld, "expected a") ELSE tB.errHand.err

\* C29 as stated: a failure in mode happy sets the current error and goes to
\* mode error, to mode rewind exactly when a witness is set (witnessID # 0)
\* and was set at the position the State is at (witnessPos = pos).
C29_RewindIffWitnessHere ==
    FailedInHappy =>
        /\ tA.errHand.err = FailedWith
        /\ tA.mode = IF tOld.errHand.witnessID # 0
                        /\ tOld.errHand.witnessPos = tOld.pos
                     THEN "rewind" ELSE "error"

\* C29 amended: a failure in mode happy sets the current error and goes to
\* mode error, to mode rewind exactly when a witness is set (witnessID # 0),
\* wherever it was set.
C29_RewindIffWitness ==
    FailedInHappy =>
        /\ tA.errHand.err = FailedWith
        /\ tA.mode = IF tOld.errHand.witnessID # 0 THEN "rewind" ELSE "error"

\* A parser failed in mode happy behind the position of the witness.
C29_Witness ==
    /\ FailedInHappy
    /\ tOld.errHand.witnessID # 0
    /\ tOld.errHand.witnessPos < tOld.pos
    /\ tA.mode = "rewind"

\* C21, second part: prevNl <= pos in every state inside and returned by the
\* retry loop of HandleWitness.
C21_PrevNlBehindCursor ==
    /\ wState.prevNl <= wState.pos
    /\ wTry # NoTry => wTry.st.prevNl <= wTry.st.pos

\* C15: when the culprit matches on a retry of HandleWitness, whichever retry
\* it is, HandleWitness returns with the state and output of that attempt, in
\* mode happy and with Failed() false.
C15_MatchingRetryReturnsHappy ==
    wTry.matched =>
        /\ wpc \in {"ret", "end"}
        /\ wState = wTry.st
        /\ wOut = wTry.out
        /\ wState.mode = "happy"
        /\ ~Failed(wState)

\* C16: when the retry of the witness succeeded, the error that started the
\* recovery is among the errors the returned state reports.
C16_HandledErrorIsReported ==
    (wpc = "ret" /\ wTry.matched /\ ~Failed(wState)) =>
        /\ Errors(wState) # <<>>
        /\ \E i \in 1..Len(Errors(wState)) : Errors(wState)[i] = wEntry.errHand.err

\* A pass of the loop is about to run in mode rewind.
RewindPass == wpc = "loop" /\ wState.mode = "rewind"

\* C33: the skip-the-culprit step: a pass of HandleWitness in mode rewind with
\* curDel + 1 > maxDel and ignoreErrParser not set sets ignoreErrParser and
\* curDel = 0, puts the cursor at the witness position with nothing deleted,
\* does not invoke the culprit and returns the zero output in mode happy; a
\* pass in mode rewind with ignoreErrParser set never invokes the culprit and
\* returns the zero output, in mode escape if curDel + 1 > maxDel and in mode
\* happy otherwise.
C33_SkipTheCulprit ==
    [][/\ (RewindPass /\ ~wState.errHand.ignoreErrParser
                      /\ wState.errHand.curDel + 1 > wState.maxDel) =>
            /\ wState'.errHand.ignoreErrParser
            /\ wState'.errHand.curDel = 0
            /\ wState'.pos = wEntry.pos
            /\ wCalls' = wCalls
            /\ wpc' = "ret" /\ wOut' = ZeroOut /\ wState'.mode = "happy"
       /\ (RewindPass /\ wState.errHand.ignoreErrParser) =>
            /\ wCalls' = wCalls
            /\ wpc' = "ret" /\ wOut' = ZeroOut
            /\ wState'.mode =
                  IF wState.errHand.curDel + 1 > wState.maxDel THEN "escape" ELSE "happy"]_vars

\* After the culprit was skipped the parse came back to the witness in mode
\* rewind, and the witness returned in mode happy once more.
C33_Witness ==
    /\ wpc = "ret" /\ wState.mode = "happy"
    /\ wState.errHand.ignoreErrParser
    /\ wState.errHand.curDel >= 1
    /\ wCalls >= 1

\* C34: a second error gets its own witness: after the witness handled its
\* error (the retry returned a State that is not failed, in mode happy) and
\* the parse went on, a new failure goes to mode error and is claimed by the
\* branch parser above it: the State holds that parser's ID, start position
\* and the index of the failed child.
C34_SecondErrorOwnWitness ==
    (wpc = "second" /\ wSecond.handled) =>
        /\ wSecond.mode = "error"
        /\ wState.errHand.witnessID = wSecond.id
        /\ wState.errHand.witnessPos = wSecond.pos
        /\ wState.errHand.culpritIdx = wSecond.idx

\* Whether the recoverer's parser fails when run on rState moved to position p.
RecParserFailsAt(p) == Failed(It(rParse, MoveBy(rState, p - rState.pos)).st)

\* C3: the default recoverer terminates for every finite input, binary or
\* text, and every terminating parser: its loop ends with a waste or with -1.
C3_RecovererTerminates == <>(rpc = "done")

\* C5: recoverer soundness: when the default recoverer returns w >= 0 for the
\* state s, the parser succeeds when run at s.MoveBy(w).
C5_RecovererSound ==
    (rpc = "done" /\ rWaste >= 0) =>
        ~Failed(It(rParse, MoveBy(rState, rWaste)).st)

\* A recoverer that started past the start of the input returned a waste > 0.
C5_Witness == rpc = "done" /\ rWaste > 0 /\ rState.pos > 0

\* C6: recoverer completeness: when the default recoverer returns -1 for the
\* state s, the parser fails at every position from s.pos to the end of input,
\* the end of input included.
C6_RecovererComplete ==
    (rpc = "done" /\ rWaste = -1) =>
        \A p \in rState.pos..InputN(rState) : RecParserFailsAt(p)

\* ------------------------------------------------------------------------
\* Specification SpecSeq: one parser built by MapN (the first branch parser,
\* so its id is 1) and called by its parent on one text input.  The parent calls
\* it in mode happy with no error in the State; once it returned a failed
\* State the parent may come back to the same position with that error in
\* mode error, handle, rewind or escape, call it afresh, or clear the caches.
\* ------------------------------------------------------------------------
SeqLen == 3

SeqTexts == SeqsUpTo({"a", "b"}, SeqLen)

\* The sub-parsers p1..p5 of the grammars: index k holds pk.
SeqPatterns ==
    {<<LitParser("a"), LitParser("b"), EpsParser, LitParser("a"), LitParser("b")>>,
     <<LitParser("b"), LitParser("a"), LitParser("a"), EpsParser, LitParser("a")>>}

\* md for n sub-parsers of pattern w, the one of index save (if any) wrapped
\* in a save spot.
SeqGrammar(w, n, save, fnErr) ==
    [n |-> n,
     ps |-> [k \in 1..n |-> IF k = save + 1 THEN SaveSpotOf(w[k]) ELSE w[k]],
     fnErr |-> fnErr]

SeqInit ==
    /\ \E w \in SeqPatterns, n \in 1..MaxParsers, fnErr \in BOOLEAN :
         \E save \in -1..(n - 1) :
            sGram = SeqGrammar(w, n, save, fnErr)
    /\ \E text \in SeqTexts : sEntry = NewState(text, FALSE, MaxMaxDel)
    /\ sArgs = ZeroArgs
    /\ spc = "idle"
    /\ sRet = [st |-> ZeroState, out |-> ZeroOut]
    /\ sCache = <<>>
    /\ sIdxCache = <<>>
    /\ sInvoked = FALSE
    /\ sHit = FALSE
    /\ sRun = [valid |-> FALSE, st |-> ZeroState, out |-> ZeroOut]
    /\ RecOff
    /\ CombOff
    /\ WitOff
    /\ PureOff

\* mapParse: md.mapnAny(state, state, 0, -1, -1, zero1, ..., zero5)
SeqCall(state) ==
    /\ sEntry' = state
    /\ sArgs' = [state |-> state, remaining |-> state, startIdx |-> 0,
                 noWayBackStart |-> -1, noWayBackIdx |-> -1, outs |-> ZeroOuts]
    /\ spc' = "mapnAny"
    /\ sInvoked' = FALSE
    /\ sHit' = FALSE
    /\ UNCHANGED <<sGram, sRet, sCache, sIdxCache, sRun,
                   recVars, combVars, witVars, pureVars>>

\* The first call: in mode happy at some position of the input.
SeqEnter ==
    /\ spc = "idle"
    /\ \E p \in 0..InputN(sEntry) : SeqCall(MoveBy(sEntry, p))

\* A further call in mode happy at the same position.
SeqRerun ==
    /\ spc = "ret"
    /\ SeqCall([sEntry EXCEPT !.mode = "happy", !.errHand = NoErrHand])

\* The call returned a failed State and the parent comes back to the same
\* position with that error in mode error, handle, rewind or escape.
SeqReenter ==
    /\ spc = "ret"
    /\ Failed(sRet.st)
    /\ \E m \in {"error", "handle", "rewind", "escape"} :
          SeqCall([sEntry EXCEPT !.mode = m, !.errHand = sRet.st.errHand])

\* ClearAllCaches
SeqClear ==
    /\ spc = "ret"
    /\ sCache # <<>> \/ sIdxCache # <<>>
    /\ sCache' = <<>>
    /\ sIdxCache' = <<>>
    /\ UNCHANGED <<sGram, sEntry, sArgs, spc, sRet, sInvoked, sHit, sRun,
                   recVars, combVars, witVars, pureVars>>

\* The function at spc ran and yielded r: it returned, or it ended in a
\* call of another function of mapData.
SeqStep(r) ==
    /\ sCache' = r.cache
    /\ sIdxCache' = IF "icache" \in DOMAIN r THEN r.icache ELSE sIdxCache
    /\ sInvoked' = r.invoked
    /\ sHit' = r.hit
    /\ IF r.kind = "ret"
       THEN /\ spc' = "ret"
            /\ sRet' = [st |-> r.st, out |-> r.out]
            /\ sRun' = IF sEntry.mode = "happy" /\ ~r.hit
                       THEN [valid |-> TRUE, st |-> r.st, out |-> r.out]
                       ELSE sRun
            /\ sArgs' = ZeroArgs
       ELSE /\ spc' = r.kind
            /\ sArgs' = r.args
            /\ UNCHANGED <<sRet, sRun>>
    /\ UNCHANGED <<sGram, sEntry, recVars, combVars, witVars, pureVars>>

MapnAny ==
    /\ spc = "mapnAny"
    /\ \E r \in {mapnAny(sGram, sCache, sArgs, sInvoked)} : SeqStep(r)

SequenceHappy ==
    /\ spc = "sequenceHappy"
    /\ \E r \in {sequenceHappy(sGram, sCache, sArgs)} : SeqStep(r)

MapnError ==
    /\ spc = "mapnError"
    /\ \E r \in {mapnError(sGram, sCache, sArgs, sInvoked)} : SeqStep(r)

MapnHandle ==
    /\ spc = "mapnHandle"
    /\ \E r \in {mapnHandle(sGram, sCache, sArgs, sInvoked)} : SeqStep(r)

MapnRewind ==
    /\ spc = "mapnRewind"
    /\ \E r \in {mapnRewind(sGram, sCache, sArgs, sInvoked)} : SeqStep(r)

MapnEscape ==
    /\ spc = "mapnEscape"
    /\ \E r \in {mapnEscape(sGram, sCache, sIdxCache, sArgs, sInvoked)} : SeqStep(r)

SeqNext ==
    \/ SeqEnter \/ SeqRerun \/ SeqReenter \/ SeqClear
    \/ MapnAny \/ SequenceHappy \/ MapnError \/ MapnHandle \/ MapnRewind
    \/ MapnEscape

\* A call runs on once begun, and a parent that was handed a result goes on.
SpecSeq == SeqInit /\ [][SeqNext]_vars /\ WF_vars(SeqNext)

\* Specification SpecSeqLive: the calls of SpecSeq for the grammars of at most
\* LiveParsers sub-parsers on the inputs of at most LiveLen bytes, the part of
\* SpecSeq on which the termination of a call is checked.
LiveParsers == 2

LiveLen == 2

SeqLiveInit ==
    /\ SeqInit
    /\ sGram.n <= LiveParsers
    /\ InputN(sEntry) <= LiveLen

SpecSeqLive == SeqLiveInit /\ [][SeqNext]_vars /\ WF_vars(SeqNext)

\* The cache entry of this parser at the position of the current call.
SeqCached == CachedParserResult(sCache, sEntry, SeqID)

\* C2: every call of the sequence combinator in mode handle or rewind
\* terminates: whenever mapnHandle or mapnRewind is about to run, the call
\* reaches a return.
C2_HandleRewindTerminates ==
    (spc \in {"mapnHandle", "mapnRewind"}) ~> (spc = "ret")

\* C4: a failing parse consumes no input: when a call of the sequence
\* combinator in mode happy returns a Failed state, the state is at the
\* position the call was entered at and the output is the zero value.
C4_FailingParseConsumesNothing ==
    (spc = "ret" /\ sEntry.mode = "happy" /\ Failed(sRet.st)) =>
        (sRet.st.pos = sEntry.pos /\ sRet.out = ZeroOut)

\* A parse failed at a later sub-parser after a save-spot sub-parser that
\* consumed input had succeeded.
C4_Witness ==
    /\ spc = "ret" /\ sEntry.mode = "happy" /\ ~sHit
    /\ Failed(sRet.st)
    /\ SeqCached.ok
    /\ SeqCached.value.HasSaveSpot
    /\ SeqCached.value.Idx > SeqCached.value.SaveSpotIdx
    /\ SeqCached.value.ErrorStart > 0

\* C8: cache coherence on failure: when a happy-mode run at a position failed
\* with error e, a further happy-mode call at that position that finds the
\* entry in the cache invokes no sub-parser and returns a Failed state whose
\* current error has the text and the position of e.
C8_CacheCoherentOnFailure ==
    (spc = "ret" /\ sEntry.mode = "happy" /\ sHit /\ Failed(sRun.st)) =>
        /\ ~sInvoked
        /\ Failed(sRet.st)
        /\ sRet.st.errHand.err.text = sRun.st.errHand.err.text
        /\ sRet.st.errHand.err.pos = sRun.st.errHand.err.pos

\* A replayed failure of a sub-parser past the first, whose error lies past
\* the position of the call.
C8_Witness ==
    /\ spc = "ret" /\ sEntry.mode = "happy" /\ sHit /\ Failed(sRun.st)
    /\ sRun.st.errHand.err.pos > sEntry.pos

\* C9: cache replay of a success equals the original run: when a happy-mode
\* run at position p succeeded with output o and consumed c bytes, a further
\* call at p that hits the cache returns o and a state at position p + c.
C9_ReplayEqualsRun ==
    (spc = "ret" /\ sEntry.mode = "happy" /\ sHit
        /\ ~Failed(sRun.st) /\ sRun.st.oldErrors = <<>>) =>
        (sRet.out = sRun.out /\ sRet.st.pos = sRun.st.pos)

\* C10: mode well-formedness: a state the sequence combinator returns (in its
\* failure paths the state IWitnessed returned) that has Failed() = true is in
\* a mode other than happy.
C10_FailedNeverHappy ==
    (spc = "ret" /\ Failed(sRet.st)) => sRet.st.mode # "happy"

\* The State mapnHandle passes to HandleWitness for the failed sub-parser of
\* the cached result: `state` for the first, state.MoveBy(ErrorStart) else.
HandleArg ==
    IF SeqCached.value.Idx = 0 THEN sArgs.state
    ELSE MoveBy(sArgs.state, SeqCached.value.ErrorStart)

\* mapnHandle is about to call HandleWitness for a sub-parser whose error
\* this sequence claimed at the position of the call.
HandlesOwnClaim ==
    /\ spc = "mapnHandle" /\ sArgs.state.mode = "handle"
    /\ SeqCached.ok /\ SeqCached.value.Failed
    /\ sArgs.state.errHand.witnessID = SeqID
    /\ sArgs.state.errHand.witnessPos = sEntry.pos

\* C25: when the sequence claimed the error of its failed sub-parser i, the
\* HandleWitness call it makes in mode handle for that sub-parser finds the
\* witness coordinates matching and enters its loop with curDel = 1, however
\* many bytes the sub-parsers before i consumed.
C25_WitnessFoundAgain ==
    HandlesOwnClaim =>
        /\ IsWitness(HandleArg, SeqID)
        /\ HandleWitnessSwitch(WitnessCulprit(HandleArg, 1)).st.errHand.curDel = 1

\* The same for a failed sub-parser before which no input was consumed.
C25_WitnessFoundAtStart ==
    (HandlesOwnClaim /\ SeqCached.value.ErrorStart = 0) =>
        /\ IsWitness(HandleArg, SeqID)
        /\ HandleWitnessSwitch(WitnessCulprit(HandleArg, 1)).st.errHand.curDel = 1

\* C26: when HandleWitness returned to mapnHandle or mapnRewind in mode happy
\* or escape, the sequence goes on behind the failed sub-parser (startIdx is
\* its index + 1) in the mode and from the position of the State HandleWitness
\* returned, with the output of the retried sub-parser among the outputs.
C26_ContinuesAfterWitness ==
    [][(/\ spc \in {"mapnHandle", "mapnRewind"}
        /\ spc' = "mapnAny"
        /\ sArgs'.remaining.mode \in {"happy", "escape"})
          => /\ sArgs'.startIdx = SeqCached.value.Idx + 1
             /\ sArgs'.state.mode = sArgs'.remaining.mode
             /\ sArgs'.state.pos = sArgs'.remaining.pos]_vars

\* The index mapnEscape is about to pick its sub-parser by, and the waste the
\* combining recoverer has for the position of the call.
EscapeIdx == EscapeIndex(sGram, sIdxCache, sArgs).idx

EscapeWaste ==
    cachedRecovererWasteIdx(EscapeIndex(sGram, sIdxCache, sArgs).icache,
                            sArgs.state, CombID).waste

\* The State mapnEscape passes to the sub-parser it picked.
EscapeArg == sArgs.remaining

\* The least waste the recoverers of the save-spot sub-parsers report.
MinSaveSpotWaste ==
    LET usable == {SaveSpotRecoverer(sGram.ps[k], sArgs.state) :
                      k \in {j \in 1..sGram.n : sGram.ps[j].save}} \ {0 - 1}
    IN IF usable = {} THEN -1 ELSE CHOOSE w \in usable : \A v \in usable : w <= v

Escaping == spc = "mapnEscape" /\ sArgs.startIdx = 0 /\ EscapeIdx >= 0

\* C27: in mode escape the sub-parser the sequence invokes is the one whose
\* save-spot recoverer returned the least waste, whichever sub-parsers have a
\* save spot.
C27_EscapeDispatchesBest ==
    Escaping =>
        /\ sGram.ps[EscapeIdx + 1].save
        /\ SaveSpotRecoverer(sGram.ps[EscapeIdx + 1], sArgs.state) = MinSaveSpotWaste

\* C28: in mode escape the chosen sub-parser is invoked at the position of the
\* call plus the winning waste, and when it returns in mode happy the State
\* the sequence returns is at or behind that position.
C28_EscapeResynchronizes ==
    [][(Escaping /\ It(SubParser(sGram, EscapeIdx), EscapeArg).st.mode = "happy"
          /\ spc' = "ret")
         => /\ EscapeArg.pos = sArgs.state.pos + EscapeWaste
            /\ sRet'.st.pos >= sArgs.state.pos + EscapeWaste]_vars

\* ------------------------------------------------------------------------
\* Specification SpecIDs: goroutines that call NewBranchParserID, NewCallID,
\* CachingRecoverer and NewCombiningRecoverer concurrently.  Each of them
\* takes its ID with one atomic Add(1) on the counter of its kind.
\* ------------------------------------------------------------------------
MaxIDs == 3

\* A read of the counter where the code adds to it.
AddLoads(v, delta) == v

\* atomic.Uint64.Add: the new value (the counter wraps to 0 after 2^64 Adds,
\* far beyond MaxIDs).
Add(v, delta) == v + delta

IDsInit ==
    /\ iCounters = [a \in Allocators |-> 0]
    /\ iIssued = [a \in Allocators |-> <<>>]
    /\ ipc = [p \in Procs |-> "idle"]
    /\ ClearOff
    /\ BoundOff
    /\ OpsOff
    /\ ModeOff
    /\ ChainOff
    /\ CoreOff
    /\ LateOff

\* Goroutine p calls the constructor that uses counter a.
IDsCall(p, a) ==
    /\ ipc[p] = "idle"
    /\ ipc' = [ipc EXCEPT ![p] = a]
    /\ UNCHANGED <<iCounters, iIssued, clearVars, boundVars,
                   opsVars, modeVars, chainVars, coreVars, lateVars>>

\* The Add(1) of the constructor goroutine p is in, and its return.
IDsAdd(p, a) ==
    /\ ipc[p] = a
    /\ iCounters[a] < MaxIDs
    /\ iCounters' = [iCounters EXCEPT ![a] = Add(@, 1)]
    /\ iIssued' = [iIssued EXCEPT ![a] = Append(@, Add(iCounters[a], 1))]
    /\ ipc' = [ipc EXCEPT ![p] = "idle"]
    /\ UNCHANGED <<clearVars, boundVars, opsVars, modeVars, chainVars, coreVars, lateVars>>

CallNewBranchParserID == \E p \in Procs : IDsCall(p, "combiningParserIDs")

NewBranchParserID == \E p \in Procs : IDsAdd(p, "combiningParserIDs")

CallNewCallID == \E p \in Procs : IDsCall(p, "callIDs")

NewCallID == \E p \in Procs : IDsAdd(p, "callIDs")

CallCachingRecoverer == \E p \in Procs : IDsCall(p, "cachingRecovererIDs")

CachingRecoverer == \E p \in Procs : IDsAdd(p, "cachingRecovererIDs")

CallNewCombiningRecoverer == \E p \in Procs : IDsCall(p, "combiningRecovererIDs")

NewCombiningRecoverer == \E p \in Procs : IDsAdd(p, "combiningRecovererIDs")

IDsNext ==
    \/ CallNewBranchParserID \/ NewBranchParserID
    \/ CallNewCallID \/ NewCallID
    \/ CallCachingRecoverer \/ CachingRecoverer
    \/ CallNewCombiningRecoverer \/ NewCombiningRecoverer

SpecIDs == IDsInit /\ [][IDsNext]_vars

\* C22: ID allocation is race-free: whatever the interleaving of concurrent
\* constructions, every ID an allocator returns is greater than every ID it
\* returned before (so all are distinct) and none is 0.
C22_IDsDistinctIncreasing ==
    \A a \in Allocators :
        /\ \A i \in 1..Len(iIssued[a]) : iIssued[a][i] # 0
        /\ \A i, j \in 1..Len(iIssued[a]) : i < j => iIssued[a][i] < iIssued[a][j]

\* Every goroutine is in the same constructor, whose allocator has handed
\* out IDs before, as has another one.
C22_Witness ==
    \E a, b \in Allocators :
        /\ a # b
        /\ Len(iIssued[a]) >= 2
        /\ Len(iIssued[b]) >= 1
        /\ \A p \in Procs : ipc[p] = a

\* ------------------------------------------------------------------------
\* Specification SpecClear: two States of one parse (the one the parse began
\* with and a copy of it, moved on or not) on which the caching functions,
\* PurgeOutput and ClearAllCaches are called.
\* ------------------------------------------------------------------------
MaxClearCalls == 5

ClearText == <<"a">>

ClearIDs == {1, 2}

ClearStates == {1, 2}

ClearInit ==
    /\ qHeap = NewCaches.heap
    /\ qRefs = [k \in ClearStates |-> NewCaches.refs]
    /\ \E p \in 0..Len(ClearText) :
          qSt = <<NewState(ClearText, FALSE, 0),
                  MoveBy(NewState(ClearText, FALSE, 0), p)>>
    /\ qLast = [op |-> "none", st |-> 0, held |-> FALSE]
    /\ qN = 0
    /\ IDsOff
    /\ BoundOff
    /\ OpsOff
    /\ ModeOff
    /\ ChainOff
    /\ CoreOff
    /\ LateOff

\* A call on State k that leaves map `field` as `cache`.
ClearCalled(op, k, field, cache) ==
    /\ qN < MaxClearCalls
    /\ qN' = qN + 1
    /\ qHeap' = [qHeap EXCEPT ![qRefs[k][field]] = cache]
    /\ qLast' = [op |-> op, st |-> k, held |-> FALSE]
    /\ UNCHANGED <<qRefs, qSt, idVars, boundVars,
                   opsVars, modeVars, chainVars, coreVars, lateVars>>

\* The map a field of State k refers to.
ClearMap(heap, refs, k, field) == heap[refs[k][field]]

ClearCacheRecovererWaste ==
    \E k \in ClearStates, id \in ClearIDs :
        ClearCalled("cacheRecovererWaste", k, "recovererWasteCache",
            cacheRecovererWaste(ClearMap(qHeap, qRefs, k, "recovererWasteCache"),
                                qSt[k], id, 0))

ClearCacheRecovererWasteIdx ==
    \E k \in ClearStates, id \in ClearIDs :
        ClearCalled("cacheRecovererWasteIdx", k, "recovererWasteIdxCache",
            cacheRecovererWasteIdx(ClearMap(qHeap, qRefs, k, "recovererWasteIdxCache"),
                                   qSt[k], id, 0, 0))

ClearCacheParserResult ==
    \E k \in ClearStates, id \in ClearIDs :
        ClearCalled("CacheParserResult", k, "parserCache",
            CacheParserResult(ClearMap(qHeap, qRefs, k, "parserCache"),
                              qSt[k], id, 0, 0 - 1, 0 - 1, qSt[k], ZeroOut))

ClearCacheOutput ==
    \E k \in ClearStates, id \in ClearIDs :
        ClearCalled("CacheOutput", k, "outputCache",
            CacheOutput(ClearMap(qHeap, qRefs, k, "outputCache"),
                        qSt[k], id, <<"a">>, 0))

ClearPurgeOutput ==
    \E k \in ClearStates, id \in ClearIDs :
        ClearCalled("PurgeOutput", k, "outputCache",
            PurgeOutput(ClearMap(qHeap, qRefs, k, "outputCache"), qSt[k], id))

\* st = st.ClearAllCaches() on State k.
ClearClearAllCaches ==
    \E k \in ClearStates :
        /\ qN < MaxClearCalls
        /\ qN' = qN + 1
        /\ qHeap' = ClearAllCaches(qHeap, qRefs[k]).heap
        /\ qRefs' = [qRefs EXCEPT ![k] = ClearAllCaches(qHeap, qRefs[k]).refs]
        /\ qLast' = [op |-> "ClearAllCaches", st |-> k,
                     held |-> \A f \in {"recovererWasteCache", "recovererWasteIdxCache",
                                        "parserCache"} :
                                 ClearMap(qHeap, qRefs, k, f) # <<>>]
        /\ UNCHANGED <<qSt, idVars, boundVars, opsVars, modeVars, chainVars, coreVars, lateVars>>

ClearNext ==
    \/ ClearCacheRecovererWaste \/ ClearCacheRecovererWasteIdx
    \/ ClearCacheParserResult \/ ClearCacheOutput
    \/ ClearPurgeOutput \/ ClearClearAllCaches

SpecClear == ClearInit /\ [][ClearNext]_vars

\* State k moved to position p.
ClearAt(k, p) == MoveBy(NewState(ClearText, FALSE, 0), p)

\* Every lookup in the three caches of the error handling misses, through
\* whichever State, for whichever ID and position.
AllLookupsMiss(heap, refs) ==
    \A k \in ClearStates, id \in ClearIDs, p \in 0..Len(ClearText) :
        /\ ~cachedRecovererWaste(ClearMap(heap, refs, k, "recovererWasteCache"),
                                 ClearAt(k, p), id).ok
        /\ ~cachedRecovererWasteIdx(ClearMap(heap, refs, k, "recovererWasteIdxCache"),
                                    ClearAt(k, p), id).ok
        /\ ~CachedParserResult(ClearMap(heap, refs, k, "parserCache"),
                               ClearAt(k, p), id).ok

\* What CachedOutput returns through State k for an ID at a position.
OutputLookup(heap, refs, k, id, p) ==
    CachedOutput(ClearMap(heap, refs, k, "outputCache"), ClearAt(k, p), id)

MaxRewinds == 2
MaxPurges == 1

\* An input with more positions than the larger of the list sizes.
BoundText == [i \in 1..(MinCacheSize + 1) |-> "a"]

BoundID == 1

BoundInit ==
    /\ \E cache \in {"recovererWaste", "output"}, size \in {0, MinCacheSize} :
          /\ bKind = [cache |-> cache,
                      maxRecursion |-> IF cache = "output" THEN size ELSE 0]
          /\ bSt = NewState(BoundText, FALSE, IF cache = "output" THEN 0 ELSE size)
    /\ bCache = <<>>
    /\ bCount = [rewinds |-> 0, purges |-> 0]
    /\ bLast = [op |-> "none", new |-> FALSE, full |-> FALSE]
    /\ IDsOff
    /\ ClearOff
    /\ OpsOff
    /\ ModeOff
    /\ ChainOff
    /\ CoreOff
    /\ LateOff

\* The size the list may have: cacheSize of cacheValue.
BoundSize ==
    Max((IF bKind.cache = "output" THEN bKind.maxRecursion ELSE bSt.maxDel) + 1,
        MinCacheSize)

BoundList == IF BoundID \in DOMAIN bCache THEN bCache[BoundID] ELSE <<>>

\* The parser called at the position of bSt caches its result.
BoundCached ==
    IF bKind.cache = "output"
    THEN CacheOutput(bCache, bSt, BoundID, <<"a">>, bKind.maxRecursion)
    ELSE cacheRecovererWaste(bCache, bSt, BoundID, 0)

\* The parser is called, caches, and the parse moves on by one byte.
BoundParse ==
    /\ bCache' = BoundCached
    /\ bSt' = MoveBy(bSt, 1)
    /\ bLast' = [op |-> "cache",
                 new |-> IndexOfPos(BoundList, bSt.pos) = 0,
                 full |-> Len(BoundList) = BoundSize]
    /\ UNCHANGED <<bKind, bCount, idVars, clearVars,
                   opsVars, modeVars, chainVars, coreVars, lateVars>>

\* The same, and the cached output is purged before the parse moves on.
BoundParsePurge ==
    /\ bKind.cache = "output"
    /\ bCount.purges < MaxPurges
    /\ bCache' = PurgeOutput(BoundCached, bSt, BoundID)
    /\ bSt' = MoveBy(bSt, 1)
    /\ bCount' = [bCount EXCEPT !.purges = @ + 1]
    /\ bLast' = [op |-> "purge",
                 new |-> IndexOfPos(BoundList, bSt.pos) = 0,
                 full |-> Len(BoundList) = BoundSize]
    /\ UNCHANGED <<bKind, idVars, clearVars, opsVars, modeVars, chainVars, coreVars, lateVars>>

\* The parse comes back to an earlier position: it goes on with a State it
\* had there.
BoundRewind ==
    /\ bCount.rewinds < MaxRewinds
    /\ \E p \in 0..(bSt.pos - 1) : bSt' = [bSt EXCEPT !.pos = p]
    /\ bCount' = [bCount EXCEPT !.rewinds = @ + 1]
    /\ bLast' = [op |-> "rewind", new |-> FALSE, full |-> FALSE]
    /\ UNCHANGED <<bKind, bCache, idVars, clearVars,
                   opsVars, modeVars, chainVars, coreVars, lateVars>>

BoundNext == BoundParse \/ BoundParsePurge \/ BoundRewind

SpecBound == BoundInit /\ [][BoundNext]_vars

\* C23: every per-ID list of a cache has at most max(maxDel+1, 8) entries
\* (max(maxRecursion+1, 8) in the output cache) and no two of its entries have
\* the same non-negative position.
C23_CacheBounded ==
    \A id \in DOMAIN bCache :
        /\ Len(bCache[id]) <= BoundSize
        /\ \A i, j \in 1..Len(bCache[id]) :
              (i # j /\ bCache[id][i].pos >= 0) => bCache[id][i].pos # bCache[id][j].pos

\* A result was cached at a position new to a list that was full.
C23_Witness ==
    /\ bLast.op = "cache" /\ bLast.new /\ bLast.full
    /\ Len(BoundList) = BoundSize

\* ------------------------------------------------------------------------
\* Specification SpecShare: a parse that walks over its input with State 1
\* and holds State 2, which it kept at some position.  The parse uses the
\* recoverer-waste cache (it calls caching recoverers) or the parser-result
\* cache (it calls parsers that cache their result).  At every position it
\* calls the one of ID 1 before it moves on, and it may call it through
\* State 2 at any time.  Beside this walk there are up to MaxAside calls:
\* of the recoverer or parser of ID 2, or of ClearAllCaches.
\* ------------------------------------------------------------------------
MaxAside == 1

\* An input with more positions than a list of the cache has entries.
ShareText == [i \in 1..(MinCacheSize + 1) |-> IF i = MinCacheSize THEN "b" ELSE "a"]

ShareIDs == {1, 2}

ShareStates == {1, 2}

\* The literal the recoverer wrapped under each ID looks for.
ShareLits == <<"b", "c">>

ShareInit ==
    /\ hKind \in {"recovererWaste", "parser"}
    /\ hHeap = NewCaches.heap
    /\ hRefs = [k \in ShareStates |-> NewCaches.refs]
    /\ \E p \in 0..Len(ShareText) :
          hSt = <<NewState(ShareText, FALSE, 0),
                  MoveBy(NewState(ShareText, FALSE, 0), p)>>
    /\ hLive = {}
    /\ hCount = 0
    /\ hLast = [op |-> "none"]
    /\ IDsOff
    /\ ClearOff
    /\ BoundOff
    /\ OpsOff
    /\ ModeOff
    /\ ChainOff
    /\ CoreOff

\* The cache the parse uses, as the field of State.
ShareField == IF hKind = "parser" THEN "parserCache" ELSE "recovererWasteCache"

\* The list of an ID in the cache the parse uses, through State k.
ShareList(heap, refs, k, id) ==
    IF id \in DOMAIN heap[refs[k][ShareField]]
    THEN heap[refs[k][ShareField]][id] ELSE <<>>

\* The positions of the entries of a list.
Positions(scache) == {scache[i].pos : i \in 1..Len(scache)}

\* The insert case of cacheValue for the list of an ID.
InsertCase(cache, id, maxDel) ==
    IF id \notin DOMAIN cache THEN "new"
    ELSE IF Len(cache[id]) < Max(maxDel + 1, MinCacheSize) THEN "below"
    ELSE "full"

\* A call under ID 2 is one beside the walk.
ShareCounted(id) ==
    /\ id = 2 => hCount < MaxAside
    /\ hCount' = IF id = 2 THEN hCount + 1 ELSE hCount

\* The caching recoverer of an ID is called with State k.
ShareCachingRecoverer ==
    /\ hKind = "recovererWaste"
    /\ \E k \in ShareStates, id \in ShareIDs :
         \E r \in {CachingRecovererFunc(ShareLits[id],
                        hHeap[hRefs[k].recovererWasteCache], hSt[k], id)} :
            /\ hHeap' = [hHeap EXCEPT ![hRefs[k].recovererWasteCache] = r.cache]
            /\ hLive' = {x \in hLive : x[1] # id \/ x[2] \in Positions(r.cache[id])}
                           \cup {<<id, hSt[k].pos>>}
            /\ hLast' = [op |-> "recover", st |-> k, id |-> id,
                         waste |-> r.waste, invoked |-> r.invoked,
                         live |-> <<id, hSt[k].pos>> \in hLive]
            /\ ShareCounted(id)
    /\ UNCHANGED <<hKind, hRefs, hSt, idVars, clearVars, boundVars,
                   opsVars, modeVars, chainVars, coreVars>>

\* A parser of an ID called with State k caches its result: it consumed
\* nothing and returned an index, which is another through State 2 than
\* through State 1.
ShareCacheParserResult ==
    /\ hKind = "parser"
    /\ \E k \in ShareStates, id \in ShareIDs :
            /\ hHeap' = [hHeap EXCEPT ![hRefs[k].parserCache] =
                            CacheParserResult(hHeap[hRefs[k].parserCache], hSt[k], id,
                                              k - 1, 0 - 1, 0 - 1, hSt[k], ZeroOut)]
            /\ hLast' = [op |-> "cache", st |-> k, id |-> id,
                         case |-> InsertCase(hHeap[hRefs[k].parserCache], id,
                                             hSt[k].maxDel),
                         known |-> hSt[k].pos \in Positions(ShareList(hHeap, hRefs, k, id))]
            /\ ShareCounted(id)
    /\ UNCHANGED <<hKind, hRefs, hSt, hLive, idVars, clearVars, boundVars,
                   opsVars, modeVars, chainVars, coreVars>>

\* The parse moves on by one byte.
ShareMoveBy ==
    /\ BytesRemaining(hSt[1]) > 0
    /\ hSt[1].pos \in Positions(ShareList(hHeap, hRefs, 1, 1))
    /\ hSt' = [hSt EXCEPT ![1] = MoveBy(hSt[1], 1)]
    /\ hLast' = [op |-> "MoveBy"]
    /\ UNCHANGED <<hKind, hHeap, hRefs, hLive, hCount, idVars, clearVars, boundVars,
                   opsVars, modeVars, chainVars, coreVars>>

\* st = st.ClearAllCaches() on State k.
ShareClearAllCaches ==
    /\ hCount < MaxAside
    /\ hCount' = hCount + 1
    /\ \E k \in ShareStates :
          /\ hHeap' = ClearAllCaches(hHeap, hRefs[k]).heap
          /\ hRefs' = [hRefs EXCEPT ![k] = ClearAllCaches(hHeap, hRefs[k]).refs]
    /\ hLive' = {}
    /\ hLast' = [op |-> "ClearAllCaches"]
    /\ UNCHANGED <<hKind, hSt, idVars, clearVars, boundVars,
                   opsVars, modeVars, chainVars, coreVars>>

ShareNext ==
    \/ ShareCachingRecoverer \/ ShareCacheParserResult
    \/ ShareMoveBy \/ ShareClearAllCaches

SpecShare == ShareInit /\ [][ShareNext]_vars

\* C31: a caching recoverer is transparent: it returns the waste the wrapped
\* recoverer returns at the position of the State, -1 included, and a call at
\* a position it was called at before, with no clear and no eviction of the
\* entry in between, does not invoke the wrapped recoverer.
C31_CachingTransparent ==
    hLast.op = "recover" =>
        /\ hLast.waste = Recoverer(ShareLits[hLast.id], hSt[hLast.st])
        /\ hLast.live => ~hLast.invoked

\* The caching recoverer is called again through the State the parse kept,
\* where the wrapped recoverer returns -1, after other entries of the full
\* list were evicted, and finds the waste in the cache.
C31_Witness ==
    /\ hLast.op = "recover" /\ hLast.st = 2
    /\ hLast.live /\ ~hLast.invoked
    /\ hLast.waste = 0 - 1
    /\ Len(ShareList(hHeap, hRefs, 2, hLast.id)) = MinCacheSize
    /\ \E p \in 0..hSt[1].pos : p \notin Positions(ShareList(hHeap, hRefs, 2, hLast.id))

\* What CachedParserResult returns for an ID through State k when that State
\* is at position p.
ParserLookup(heap, refs, k, id, p) ==
    CachedParserResult(heap[refs[k].parserCache],
                       MoveBy(NewState(ShareText, FALSE, hSt[k].maxDel), p), id)

\* C32: read-your-write across the States of a parse: right after a parser
\* result was cached for (id, pos) through one State, the lookup for (id, pos)
\* through the other State, positioned at pos, returns that result, whether
\* the list was new, below its size or full; and the insert changes no
\* lookup under another ID.
C32_ReadYourWrite ==
    [][hLast'.op = "cache" =>
         /\ \A o \in ShareStates \ {hLast'.st} :
               \E r \in {ParserLookup(hHeap', hRefs', o, hLast'.id, hSt[hLast'.st].pos)} :
                  /\ r.ok
                  /\ r.value.pos = hSt[hLast'.st].pos
                  /\ r.value.Idx = hLast'.st - 1
                  /\ ~r.value.Failed
         /\ \A o \in ShareStates, id \in ShareIDs \ {hLast'.id}, q \in 0..Len(ShareText) :
               ParserLookup(hHeap', hRefs', o, id, q) = ParserLookup(hHeap, hRefs, o, id, q)]_vars

\* Through the State the parse kept, a result was cached at a position the
\* full list of ID 1 held another result for, while ID 2 has a list too.
C32_Witness ==
    /\ hLast.op = "cache" /\ hLast.st = 2 /\ hLast.id = 1
    /\ hLast.case = "full" /\ hLast.known
    /\ ShareList(hHeap, hRefs, 1, 2) # <<>>
    /\ ParserLookup(hHeap, hRefs, 1, 1, hSt[2].pos).value.Idx = 1

====
